---- MODULE Spec2Model ----
(***************************************************************************)
(* PothosArrayFire: the ArrayFireBlock base class (backend / device        *)
(* affinity of a block, and the bridge between Pothos buffer chunks and    *)
(* af::array).                                                             *)
(*                                                                         *)
(* Memory is modelled at byte level: a buffer or an array of n elements of *)
(* a type of s bytes holds n*s bytes, so that element counts, byte counts  *)
(* and addresses are different quantities, as they are in the code.        *)
(***************************************************************************)
EXTENDS Integers, Sequences, FiniteSets, TLC

\* ------------------------------------------------------------------ bounds

\* The largest number of elements a port buffer or a foreign array holds.
MaxElems == 3

\* ------------------------------------------------------ the model's universe

Blocks == {"blk1", "blk2"}
Threads == {"thr1", "thr2"}

\* af::Backend values the library has loaded on this machine.
Backends == {"AF_BACKEND_CPU", "AF_BACKEND_OPENCL"}

\* The backend a thread has before any af::setBackend (highest priority one).
DefaultBackend == "AF_BACKEND_OPENCL"

\* Arguments handed to setArrayFireBackend: two valid names and an invalid one.
BackendArgs == {"CPU", "OpenCL", "NotABackend"}

\* Arguments handed to setArrayFireDevice.
DeviceArgs == {"Xeon", "Radeon", "NoSuchDevice"}

\* Element types, one per element size (1, 2, 4, 8, 16 bytes).
DTypes == {"uint8", "int16", "float32", "float64", "complex_float64"}

\* Values uninitialised device memory may show.
GarbageBytes == {0, 255}

None == "none"

\* No af::array (a null container pointer), and no pending buffer.
NoArray == [null |-> TRUE, backend |-> None, type |-> None,
            dims |-> <<0, 0, 0, 0>>, data |-> <<>>]
NoChunk == [empty |-> TRUE, dtype |-> None, mem |-> <<>>, bufferAddress |-> 0,
            address |-> 0, length |-> 0, container |-> NoArray]

\* Numbered ports a block may set up (port 0 is the first).
PortIds == {0, 1, 2}

\* No block instance: nothing was constructed, no port was set up.
NoBlock == [made |-> FALSE, kind |-> None, _nchans |-> 0, _postBuffer |-> FALSE,
            _numBins |-> 0, _func |-> None,
            inputs |-> <<>>, outputs |-> <<>>]

\* The port names of the complex blocks: "re" and "im", and the numbered port 0.
ComplexPorts == {"re", "im", "0"}

\* No topology of complex blocks is committed.
NoTopology == [chain |-> None, T |-> None, fed |-> 0,
               inputs |-> [p \in ComplexPorts |-> NoChunk],
               collected |-> [p \in ComplexPorts |-> <<>>]]

\* No random source block: nothing was constructed.
NoRandomBlock == [made |-> FALSE, _afRandomFunc |-> None, _distribution |-> None,
                  signals |-> <<>>]

\* No factory call yet.
NoFactoryCall == [op |-> None, dtype |-> None, outputDType |-> None, numChannels |-> 0,
                  supportedTypes |-> {}, exc |-> None]

\* ------------------------------------------------------------------- state

VARIABLES
    active,                 \* Pothos::Block::isActive() of each block
    _afBackend,             \* ArrayFireBlock::_afBackend
    _afDevice,              \* ArrayFireBlock::_afDevice
    _assumeArrayFireInputs, \* ArrayFireBlock::_assumeArrayFireInputs
    activeBackend,          \* af::getActiveBackend() of each thread
    activeDevice,           \* each thread's current device, per backend
    inputBuffer,            \* this->input(0)->buffer() of each block
    call,                   \* the last call made: what, with what, and its outcome
    factory,                \* the last factory call: its arguments and its outcome
    block,                  \* the block instance the factory constructed
    ports,                  \* the buffers on that block's numbered input ports
    consumed,               \* elements consumed from each of those ports so far
    emitted,                \* elements that block has put on its outputs so far
    topology,               \* a chain of the two complex blocks: ports and sinks
    random                  \* the random source block: its members and signals

\* The state of the multi-port block and of its factory.
workVars == <<factory, block, ports, consumed, emitted, topology, random>>

vars == <<active, _afBackend, _afDevice, _assumeArrayFireInputs,
          activeBackend, activeDevice, inputBuffer, call, workVars>>

\* -------------------------------------------------- device / backend registry

\* getDeviceCache(): the entries enumerated at first use, in order.  (backend,
\* device index) pairs are unique; a display name is not: "Xeon" is the CPU
\* backend's device and also the OpenCL backend's second device.
getDeviceCache ==
    << [afBackendEnum |-> "AF_BACKEND_CPU",    afDeviceIndex |-> 0, name |-> "Xeon"],
       [afBackendEnum |-> "AF_BACKEND_OPENCL", afDeviceIndex |-> 0, name |-> "Radeon"],
       [afBackendEnum |-> "AF_BACKEND_OPENCL", afDeviceIndex |-> 1, name |-> "Xeon"] >>

\* std::find_if over the cache, given the positions whose entry satisfies the
\* predicate: the first of them, or 0 for deviceCache.end().
FindIf(hits) ==
    IF hits = {} THEN 0
    ELSE CHOOSE i \in hits : \A j \in hits : i <= j

\* Pothos::Object(backend).convert<af::Backend>(): the enum of a backend name;
\* "BadCast" stands for the conversion throwing.
ConvertToBackend(arg) ==
    CASE arg = "CPU"    -> "AF_BACKEND_CPU"
      [] arg = "OpenCL" -> "AF_BACKEND_OPENCL"
      [] arg = "CUDA"   -> "AF_BACKEND_CUDA"
      [] OTHER          -> "BadCast"

\* Pothos::Object(_afBackend).convert<std::string>()
ConvertToString(backend) ==
    CASE backend = "AF_BACKEND_CPU"    -> "CPU"
      [] backend = "AF_BACKEND_OPENCL" -> "OpenCL"
      [] backend = "AF_BACKEND_CUDA"   -> "CUDA"
      [] OTHER                         -> "Unknown"

\* af::getDevice() on thread t: the current device of the thread's active
\* backend.  Each backend keeps its own current device per thread; af::setBackend
\* does not reset it.
afGetDevice(ab, ad, t) == ad[t][ab[t]]

\* The device a backend has current on a thread that never selected one.
DefaultDevice(backend) == 0

\* setThreadAFBackend(backend) on thread t: the thread's ambient backend
\* becomes `backend`.
setThreadAFBackend(ab, t, backend) == [ab EXCEPT ![t] = backend]

\* setThreadAFDevice(device) on thread t, for the cache entry the caller found:
\* the thread's ambient (backend, device) becomes that entry's.
setThreadAFDeviceBackend(ab, t, entry) == [ab EXCEPT ![t] = entry.afBackendEnum]
setThreadAFDeviceIndex(ad, t, entry) ==
    [ad EXCEPT ![t][entry.afBackendEnum] = entry.afDeviceIndex]

\* ------------------------------------------------------------ call records

Call(op, b, t, arg) ==
    [op |-> op, block |-> b, thread |-> t, arg |-> arg, exc |-> None,
     msg |-> <<>>, truncate |-> FALSE, minLength |-> 0, path |-> None,
     ret |-> NoArray, out |-> <<>>, value |-> None]

Throw(c, exc, msg) == [c EXCEPT !.exc = exc, !.msg = msg]

\* ------------------------------------------------------------------- Init

\* ArrayFireBlock::ArrayFireBlock(): every block takes the constructing
\* thread's ambient backend and device.
Init ==
    /\ active = [b \in Blocks |-> FALSE]
    /\ _assumeArrayFireInputs = [b \in Blocks |-> FALSE]
    /\ activeBackend = [t \in Threads |-> DefaultBackend]
    /\ activeDevice = [t \in Threads |-> [k \in Backends |-> DefaultDevice(k)]]
    /\ _afBackend = [b \in Blocks |-> DefaultBackend]
    /\ _afDevice = [b \in Blocks |-> 0]
    /\ inputBuffer = [b \in Blocks |-> NoChunk]
    /\ call = Call("construct", "blk1", "thr1", None)
    /\ factory = NoFactoryCall
    /\ block = NoBlock
    /\ ports = [p \in PortIds |-> NoChunk]
    /\ consumed = [p \in PortIds |-> 0]
    /\ emitted = 0
    /\ topology = NoTopology
    /\ random = NoRandomBlock

\* ------------------------------------------------------- block life cycle

\* The topology activates the block: isActive() becomes true.
Activate(b) ==
    /\ ~active[b]
    /\ active' = [active EXCEPT ![b] = TRUE]
    /\ call' = Call("activate", b, "thr1", None)
    /\ UNCHANGED <<workVars, _afBackend, _afDevice, _assumeArrayFireInputs,
                   activeBackend, activeDevice, inputBuffer>>

\* The topology deactivates the block; its pending input is dropped.
Deactivate(b) ==
    /\ active[b]
    /\ active' = [active EXCEPT ![b] = FALSE]
    /\ inputBuffer' = [inputBuffer EXCEPT ![b] = NoChunk]
    /\ call' = Call("deactivate", b, "thr1", None)
    /\ UNCHANGED <<workVars, _afBackend, _afDevice, _assumeArrayFireInputs,
                   activeBackend, activeDevice>>

\* ---------------------------------------------------- backend / device API

\* The backends handed to setArrayFireBackend on a machine whose CUDA backend
\* found no device: the registry holds no entry for it.
RegistryBackendArgs == BackendArgs \cup {"CUDA"}

\* The number of devices the registry lists under a backend.
DeviceCount(backend) ==
    Cardinality({i \in DOMAIN getDeviceCache :
                    getDeviceCache[i].afBackendEnum = backend})

\* getArrayFireBackend() called on thread t.
getArrayFireBackend(afb, ab, b, t) ==
    IF afb[b] = ab[t]
    THEN ConvertToString(afb[b])
    ELSE "AssertionFailure"

\* A setArrayFireBackend that converts and switches before looking at isActive().
SetArrayFireBackend_SwitchWhileActive(b, t, backend) ==
    LET afBackend == ConvertToBackend(backend)
        c == Call("setArrayFireBackend", b, t, backend)
    IN  IF afBackend = "BadCast"
        THEN /\ call' = Throw(c, "BadCast", <<>>)
             /\ UNCHANGED <<workVars, active, _afBackend, _afDevice, _assumeArrayFireInputs,
                            activeBackend, activeDevice, inputBuffer>>
        ELSE /\ activeBackend' = setThreadAFBackend(activeBackend, t, afBackend)
             /\ _afBackend' = [_afBackend EXCEPT ![b] = afBackend]
             /\ _afDevice' = [_afDevice EXCEPT ![b] =
                                 afGetDevice(activeBackend', activeDevice, t)]
             /\ call' = IF active[b] THEN Throw(c, "RuntimeException", <<>>) ELSE c
             /\ UNCHANGED <<workVars, active, _assumeArrayFireInputs, activeDevice, inputBuffer>>

\* A setArrayFireBackend that keeps the device index it had.
SetArrayFireBackend_KeepDevice(b, t, backend) ==
    LET afBackend == ConvertToBackend(backend)
        c == Call("setArrayFireBackend", b, t, backend)
    IN  IF ~active[b] /\ afBackend # "BadCast"
        THEN /\ activeBackend' = setThreadAFBackend(activeBackend, t, afBackend)
             /\ _afBackend' = [_afBackend EXCEPT ![b] = afBackend]
             /\ call' = c
             /\ UNCHANGED <<workVars, active, _afDevice, _assumeArrayFireInputs,
                            activeDevice, inputBuffer>>
        ELSE /\ call' = Throw(c, IF active[b] THEN "RuntimeException" ELSE "BadCast", <<>>)
             /\ UNCHANGED <<workVars, active, _afBackend, _afDevice, _assumeArrayFireInputs,
                            activeBackend, activeDevice, inputBuffer>>

\* setArrayFireBackend(backend) called on thread t.
SetArrayFireBackend(b, t, backend) ==
    LET afBackend == ConvertToBackend(backend)
        c == Call("setArrayFireBackend", b, t, backend)
    IN  IF ~active[b]
        THEN IF afBackend = "BadCast"
             THEN /\ call' = Throw(c, "BadCast", <<>>)
                  /\ UNCHANGED <<workVars, active, _afBackend, _afDevice, _assumeArrayFireInputs,
                                 activeBackend, activeDevice, inputBuffer>>
             ELSE IF DeviceCount(afBackend) = 0
             THEN \* The library reports the backend unavailable, in
                  \* setThreadAFBackend (line 48) or in af::getDevice (line 53).
                  \/ /\ call' = Throw(c, "af::exception", <<>>)
                     /\ UNCHANGED <<workVars, active, _afBackend, _afDevice,
                                    _assumeArrayFireInputs, activeBackend,
                                    activeDevice, inputBuffer>>
                  \/ /\ activeBackend' = setThreadAFBackend(activeBackend, t, afBackend)
                     /\ _afBackend' = [_afBackend EXCEPT ![b] = afBackend]
                     /\ call' = Throw(c, "af::exception", <<>>)
                     /\ UNCHANGED <<workVars, active, _afDevice, _assumeArrayFireInputs,
                                    activeDevice, inputBuffer>>
             ELSE /\ activeBackend' = setThreadAFBackend(activeBackend, t, afBackend)
                  /\ _afBackend' = [_afBackend EXCEPT ![b] = afBackend]
                  \* New backend likely means new device ID.
                  /\ _afDevice' = [_afDevice EXCEPT ![b] =
                                      afGetDevice(activeBackend', activeDevice, t)]
                  /\ call' = c
                  /\ UNCHANGED <<workVars, active, _assumeArrayFireInputs, activeDevice,
                                 inputBuffer>>
        ELSE /\ call' = Throw(c, "RuntimeException", <<>>)
             /\ UNCHANGED <<workVars, active, _afBackend, _afDevice, _assumeArrayFireInputs,
                            activeBackend, activeDevice, inputBuffer>>

\* A getArrayFireDevice lookup by device index alone.
DeviceEntryOf_IgnoreBackend(afb, afd, b) ==
    FindIf({i \in DOMAIN getDeviceCache :
               getDeviceCache[i].afDeviceIndex = afd[b]})

\* The cache entry getArrayFireDevice() finds for the block (0: none, the
\* assertion fails).
DeviceEntryOf(afb, afd, b) ==
    FindIf({i \in DOMAIN getDeviceCache :
               /\ getDeviceCache[i].afBackendEnum = afb[b]
               /\ getDeviceCache[i].afDeviceIndex = afd[b]})

\* getArrayFireDevice()
getArrayFireDevice(afb, afd, b) ==
    IF DeviceEntryOf(afb, afd, b) = 0 THEN "AssertionFailure"
    ELSE getDeviceCache[DeviceEntryOf(afb, afd, b)].name

\* A device lookup by display name alone, over every backend's entries.
LookupDevice_AnyBackend(backend, device) ==
    FindIf({i \in DOMAIN getDeviceCache : getDeviceCache[i].name = device})

\* The lookup of setArrayFireDevice: first entry of `backend` named `device`.
LookupDevice(backend, device) ==
    FindIf({i \in DOMAIN getDeviceCache :
               /\ getDeviceCache[i].afBackendEnum = backend
               /\ getDeviceCache[i].name = device})

\* A setArrayFireDevice that looks the device up before looking at isActive().
SetArrayFireDevice_SwitchWhileActive(b, t, device) ==
    LET deviceIter == LookupDevice(_afBackend[b], device)
        c == Call("setArrayFireDevice", b, t, device)
    IN  IF deviceIter # 0
        THEN /\ activeBackend' =
                    setThreadAFDeviceBackend(activeBackend, t, getDeviceCache[deviceIter])
             /\ activeDevice' =
                    setThreadAFDeviceIndex(activeDevice, t, getDeviceCache[deviceIter])
             /\ _afDevice' = [_afDevice EXCEPT ![b] =
                                 getDeviceCache[deviceIter].afDeviceIndex]
             /\ call' = IF active[b] THEN Throw(c, "RuntimeException", <<>>) ELSE c
             /\ UNCHANGED <<workVars, active, _afBackend, _assumeArrayFireInputs, inputBuffer>>
        ELSE /\ call' = IF active[b] THEN Throw(c, "RuntimeException", <<>>)
                        ELSE Throw(c, "InvalidArgumentException",
                                   <<ConvertToString(_afBackend[b]), device>>)
             /\ UNCHANGED <<workVars, active, _afBackend, _afDevice, _assumeArrayFireInputs,
                            activeBackend, activeDevice, inputBuffer>>

\* setArrayFireDevice(device) called on thread t.
SetArrayFireDevice(b, t, device) ==
    LET deviceIter == LookupDevice(_afBackend[b], device)
        c == Call("setArrayFireDevice", b, t, device)
    IN  IF ~active[b]
        THEN IF deviceIter # 0
             THEN /\ activeBackend' =
                         setThreadAFDeviceBackend(activeBackend, t, getDeviceCache[deviceIter])
                  /\ activeDevice' =
                         setThreadAFDeviceIndex(activeDevice, t, getDeviceCache[deviceIter])
                  /\ _afDevice' = [_afDevice EXCEPT ![b] =
                                      getDeviceCache[deviceIter].afDeviceIndex]
                  /\ call' = c
                  /\ UNCHANGED <<workVars, active, _afBackend, _assumeArrayFireInputs,
                                 inputBuffer>>
             ELSE /\ call' = Throw(c, "InvalidArgumentException",
                                   <<ConvertToString(_afBackend[b]), device>>)
                  /\ UNCHANGED <<workVars, active, _afBackend, _afDevice, _assumeArrayFireInputs,
                                 activeBackend, activeDevice, inputBuffer>>
        ELSE /\ call' = Throw(c, "RuntimeException", <<>>)
             /\ UNCHANGED <<workVars, active, _afBackend, _afDevice, _assumeArrayFireInputs,
                            activeBackend, activeDevice, inputBuffer>>

\* setBlockAssumesArrayFireInputs(value)
SetBlockAssumesArrayFireInputs(b, value) ==
    /\ _assumeArrayFireInputs' = [_assumeArrayFireInputs EXCEPT ![b] = value]
    /\ call' = Call("setBlockAssumesArrayFireInputs", b, "thr1",
                     IF value THEN "true" ELSE "false")
    /\ UNCHANGED <<workVars, active, _afBackend, _afDevice, activeBackend, activeDevice,
                   inputBuffer>>


\* ------------------------------------------------------- buffers and arrays

\* Pothos::DType::size(): bytes per element.
DTypeSize(dtype) ==
    CASE dtype = "uint8"           -> 1
      [] dtype = "int16"           -> 2
      [] dtype = "float32"         -> 4
      [] dtype = "float64"         -> 8
      [] dtype = "complex_float32" -> 8
      [] dtype = "complex_float64" -> 16

\* Pothos::Object(dtype).convert<af::dtype>()
DTypeToAf(dtype) ==
    CASE dtype = "uint8"           -> "u8"
      [] dtype = "int16"           -> "s16"
      [] dtype = "float32"         -> "f32"
      [] dtype = "float64"         -> "f64"
      [] dtype = "complex_float32" -> "c32"
      [] dtype = "complex_float64" -> "c64"

\* af_get_size_of(&elementSize, afDType)
afGetSizeOf(afDType) ==
    CASE afDType = "u8"  -> 1
      [] afDType = "s16" -> 2
      [] afDType = "f32" -> 4
      [] afDType = "f64" -> 8
      [] afDType = "c32" -> 8
      [] afDType = "c64" -> 16

\* The bytes of a freshly filled allocation: byte i holds i, so that every
\* position is told from every other.
Bytes(n) == [i \in 1..n |-> i]

\* af::array of dims (n,1,1,1) living on `backend`.
AfArray(backend, afDType, n, data) ==
    [null |-> FALSE, backend |-> backend, type |-> afDType,
     dims |-> <<n, 1, 1, 1>>, data |-> data]

\* af::array::elements()
afElements(arr) == arr.dims[1] * arr.dims[2] * arr.dims[3] * arr.dims[4]

\* BufferChunk::elements()
elements(chunk) == chunk.length \div DTypeSize(chunk.dtype)

\* The bytes [address, address + length) a buffer chunk views.
ChunkBytesOf(chunk) ==
    SubSeq(chunk.mem, chunk.address + 1, chunk.address + chunk.length)

\* Pothos::Object(bufferChunk).convert<af::array>(): an array, on the calling
\* thread's active backend, of the chunk's type holding the chunk's bytes
\* [address, address + length).
BufferChunkToAfArray(chunk, backend) ==
    AfArray(backend, DTypeToAf(chunk.dtype), elements(chunk),
            SubSeq(chunk.mem, chunk.address + 1, chunk.address + chunk.length))

\* af::array::slice(index): the matrix at `index` along the third dimension,
\* (span, span, index); an index outside that dimension is an af::exception.
afSlice(arr, index) ==
    LET plane == arr.dims[1] * arr.dims[2] * afGetSizeOf(arr.type)
    IN  IF index < arr.dims[3]
        THEN [exc |-> None,
              ret |-> [arr EXCEPT !.dims = <<arr.dims[1], arr.dims[2], 1, 1>>,
                                  !.data = SubSeq(arr.data, index * plane + 1,
                                                  (index + 1) * plane)]]
        ELSE [exc |-> "af::exception", ret |-> NoArray]

\* af::array::write<T>(ptr, bytes): the first `bytes` bytes of the array's
\* memory are overwritten from the host pointer; the rest keeps what it held.
afWrite(arr, host, bytes) ==
    [arr EXCEPT !.data = [i \in 1..Len(arr.data) |->
                             IF i <= bytes THEN host[i] ELSE arr.data[i]]]

\* af::array(numElements, afDType): an array on `backend` whose memory is not
\* initialised; `garbage` is what it happens to hold.
afNewArray(backend, afDType, numElements, garbage) ==
    AfArray(backend, afDType, numElements,
            [i \in 1..(numElements * afGetSizeOf(afDType)) |-> garbage])

\* ---------------------------------------------------------- input bridge

\* The foreign array is on the block's backend.
SameBackendPath(arr, chunk, truncateToMinLength, minLength) ==
    IF truncateToMinLength /\ minLength < elements(chunk)
    THEN afSlice(arr, minLength)
    ELSE [exc |-> None, ret |-> arr]

\* A transit that does not switch the thread back to the block's backend.
CrossBackendPath_NoRestore(arr, blockBackend, truncateToMinLength, minLength, garbage) ==
    LET elementSize == afGetSizeOf(arr.type)
        arrayCopy == IF truncateToMinLength /\ minLength < afElements(arr)
                     THEN SubSeq(arr.data, 1, minLength * elementSize)
                     ELSE arr.data
        numElements == Len(arrayCopy) \div elementSize
    IN  [exc |-> None,
         ret |-> afWrite(afNewArray(arr.backend, arr.type, numElements, garbage),
                         arrayCopy, numElements),
         activeBackend |-> arr.backend,
         container |-> arr]

\* The foreign array is on another backend: its bytes transit host memory.
CrossBackendPath(arr, blockBackend, truncateToMinLength, minLength, garbage) ==
    LET \* af::setBackend(af::getBackendId(*pInputAfArray)), then host()
        hostCopy == arr.data
        elementSize == afGetSizeOf(arr.type)
        arrayCopy == IF truncateToMinLength /\ minLength < afElements(arr)
                     THEN SubSeq(hostCopy, 1, minLength * elementSize)
                     ELSE hostCopy
        numElements == Len(arrayCopy) \div elementSize
    IN  \* af::setBackend(_afBackend), then the new array and its write
        [exc |-> None,
         ret |-> afWrite(afNewArray(blockBackend, arr.type, numElements, garbage),
                         arrayCopy, numElements),
         activeBackend |-> blockBackend,
         container |-> arr]

\* A plain path whose view always starts at the shared buffer's address.
PlainPath_FromBufferStart(chunk, ambient, truncateToMinLength, minLength) ==
    LET n == IF truncateToMinLength /\ minLength < elements(chunk)
             THEN minLength ELSE elements(chunk)
    IN  BufferChunkToAfArray([chunk EXCEPT !.address = chunk.bufferAddress,
                                           !.length = n * DTypeSize(chunk.dtype)],
                             ambient)

\* The buffer holds plain elements: a view of minLength elements that starts at
\* the shared buffer's address, or the chunk itself, is converted.
PlainPath(chunk, ambient, truncateToMinLength, minLength) ==
    LET bufferChunk ==
            IF truncateToMinLength /\ minLength < elements(chunk)
            THEN [chunk EXCEPT !.address = chunk.bufferAddress,
                               !.length = minLength * DTypeSize(chunk.dtype)]
            ELSE chunk
    IN  BufferChunkToAfArray(bufferChunk, ambient)

\* _getInputPortAsAfArray(portId, truncateToMinLength) of block b on thread t,
\* with workInfo().minAllElements = minLength: the path taken, the exception or
\* the array returned, and what it leaves of the thread's ambient backend and of
\* the foreign array.
_getInputPortAsAfArray(b, t, truncateToMinLength, minLength, garbage) ==
    LET bufferChunk == inputBuffer[b]
        pInputAfArray == bufferChunk.container
    IN  IF _assumeArrayFireInputs[b]
        THEN IF pInputAfArray = NoArray
             THEN [path |-> "foreign", exc |-> "AssertionFailure", ret |-> NoArray,
                   activeBackend |-> activeBackend[t], container |-> pInputAfArray]
             ELSE IF pInputAfArray.backend = _afBackend[b]
             THEN LET r == SameBackendPath(pInputAfArray, bufferChunk,
                                           truncateToMinLength, minLength)
                  IN  [path |-> "same", exc |-> r.exc, ret |-> r.ret,
                       activeBackend |-> activeBackend[t],
                       container |-> pInputAfArray]
             ELSE LET r == CrossBackendPath(pInputAfArray, _afBackend[b],
                                            truncateToMinLength, minLength, garbage)
                  IN  [path |-> "cross", exc |-> r.exc, ret |-> r.ret,
                       activeBackend |-> r.activeBackend,
                       container |-> r.container]
        ELSE [path |-> "plain", exc |-> None,
              ret |-> PlainPath(bufferChunk, activeBackend[t],
                                truncateToMinLength, minLength),
              activeBackend |-> activeBackend[t], container |-> pInputAfArray]

\* The library calls of the transit across backends, in the order made.
TransitCalls == <<"af::setBackend(source)", "af::array::host", "af::setBackend(_afBackend)", "af::array::write">>

\* The thread's ambient backend when call number failed of the transit throws:
\* a setBackend that throws switches nothing, and nothing between the two
\* setBackend calls catches or restores.
TransitAmbientAfter(failed, ambient, sourceBackend, blockBackend) ==
    CASE failed = 1 -> ambient
      [] failed = 2 -> sourceBackend
      [] failed = 3 -> sourceBackend
      [] failed = 4 -> blockBackend

\* getInputPortAsAfArray on the path across backends when the library call
\* number failed throws: the af::exception leaves the bridge, no array is
\* returned.
GetInputPortAsAfArrayTransitFails(b, t, truncateToMinLength, minLength, failed) ==
    /\ active[b]
    /\ inputBuffer[b] # NoChunk
    /\ minLength <= elements(inputBuffer[b])
    /\ _assumeArrayFireInputs[b]
    /\ inputBuffer[b].container # NoArray
    /\ inputBuffer[b].container.backend # _afBackend[b]
    /\ call' = [Call("getInputPortAsAfArray", b, t, None) EXCEPT
                   !.truncate = truncateToMinLength,
                   !.minLength = minLength,
                   !.path = "cross", !.exc = "af::exception",
                   !.msg = TransitCalls[failed]]
    /\ activeBackend' = [activeBackend EXCEPT ![t] =
           TransitAmbientAfter(failed, @, inputBuffer[b].container.backend,
                               _afBackend[b])]
    /\ UNCHANGED <<workVars, active, _afBackend, _afDevice, _assumeArrayFireInputs,
                   activeDevice, inputBuffer>>

\* A bridge that consumes from the port what it returns.
GetInputPortAsAfArray_Consuming(b, t, truncateToMinLength, minLength, garbage) ==
    /\ active[b]
    /\ inputBuffer[b] # NoChunk
    /\ minLength <= elements(inputBuffer[b])
    /\ LET r == _getInputPortAsAfArray(b, t, truncateToMinLength, minLength, garbage)
           k == IF r.exc = None THEN afElements(r.ret) ELSE 0
       IN  /\ call' = [Call("getInputPortAsAfArray", b, t, None) EXCEPT
                          !.truncate = truncateToMinLength,
                          !.minLength = minLength,
                          !.path = r.path, !.exc = r.exc, !.ret = r.ret]
           /\ activeBackend' = [activeBackend EXCEPT ![t] = r.activeBackend]
           /\ inputBuffer' = [inputBuffer EXCEPT ![b] =
                  IF k = elements(@) THEN NoChunk
                  ELSE [@ EXCEPT !.address = @ + k * DTypeSize(inputBuffer[b].dtype),
                                 !.length = @ - k * DTypeSize(inputBuffer[b].dtype)]]
    /\ UNCHANGED <<workVars, active, _afBackend, _afDevice, _assumeArrayFireInputs, activeDevice>>

\* getInputPortAsAfArray(0, truncateToMinLength), called from work() on thread t.
GetInputPortAsAfArray(b, t, truncateToMinLength, minLength, garbage) ==
    /\ active[b]
    /\ inputBuffer[b] # NoChunk
    /\ minLength <= elements(inputBuffer[b])
    /\ LET r == _getInputPortAsAfArray(b, t, truncateToMinLength, minLength, garbage)
       IN  /\ call' = [Call("getInputPortAsAfArray", b, t, None) EXCEPT
                          !.truncate = truncateToMinLength,
                          !.minLength = minLength,
                          !.path = r.path, !.exc = r.exc, !.ret = r.ret]
           /\ activeBackend' = [activeBackend EXCEPT ![t] = r.activeBackend]
           /\ inputBuffer' = [inputBuffer EXCEPT ![b].container = r.container]
    /\ UNCHANGED <<workVars, active, _afBackend, _afDevice, _assumeArrayFireInputs, activeDevice>>

\* ---------------------------------------------------------- output bridge

\* Pothos::Object(afDType).convert<Pothos::DType>()
AfToDType(afDType) ==
    CASE afDType = "u8"  -> "uint8"
      [] afDType = "s16" -> "int16"
      [] afDType = "f32" -> "float32"
      [] afDType = "f64" -> "float64"
      [] afDType = "c32" -> "complex_float32"
      [] afDType = "c64" -> "complex_float64"

\* Pothos::Object(afArray).convert<Pothos::BufferChunk>(): a new buffer of the
\* array's element type and element count, filled from the array's memory.
AfArrayToBufferChunk(arr) ==
    LET dtype == AfToDType(arr.type)
        length == afElements(arr) * DTypeSize(dtype)
    IN  [empty |-> FALSE, dtype |-> dtype,
         mem |-> [i \in 1..length |-> arr.data[i]],
         bufferAddress |-> 0, address |-> 0, length |-> length,
         container |-> NoArray]

\* _postAfArray(portId, afArray): what is posted on the output port.
_postAfArray(portId, afArray) ==
    [port |-> portId, buffer |-> AfArrayToBufferChunk(afArray)]

\* postAfArray(0, afArray), called from work() with the array the bridge just
\* returned.
PostAfArray(b) ==
    /\ active[b]
    /\ call.op = "getInputPortAsAfArray"
    /\ call.block = b
    /\ call.exc = None
    /\ call' = [call EXCEPT !.op = "postAfArray",
                            !.out = <<_postAfArray(0, call.ret)>>]
    /\ UNCHANGED <<workVars, active, _afBackend, _afDevice, _assumeArrayFireInputs,
                   activeBackend, activeDevice, inputBuffer>>

\* --------------------------------------------------------- the host runtime

\* The upstream block posts a buffer of n elements on the block's input port:
\* plain elements, or (kind a backend) the buffer of an af::array of that
\* backend, which the buffer's container holds.
Feed(b, dtype, n, kind) ==
    /\ active[b]
    /\ inputBuffer[b] = NoChunk
    /\ inputBuffer' = [inputBuffer EXCEPT ![b] =
           [empty |-> FALSE, dtype |-> dtype, mem |-> Bytes(n * DTypeSize(dtype)),
            bufferAddress |-> 0, address |-> 0, length |-> n * DTypeSize(dtype),
            container |-> IF kind = "plain" THEN NoArray
                          ELSE AfArray(kind, DTypeToAf(dtype), n,
                                       Bytes(n * DTypeSize(dtype)))]]
    /\ call' = Call("feed", b, "thr1", None)
    /\ UNCHANGED <<workVars, active, _afBackend, _afDevice, _assumeArrayFireInputs,
                   activeBackend, activeDevice>>

\* InputPort::consume(k): the port's buffer starts k elements further on; a
\* buffer consumed whole leaves the port.
Consume(b, k) ==
    /\ active[b]
    /\ inputBuffer[b] # NoChunk
    /\ k <= elements(inputBuffer[b])
    /\ inputBuffer' = [inputBuffer EXCEPT ![b] =
           IF k = elements(@) THEN NoChunk
           ELSE [@ EXCEPT !.address = @ + k * DTypeSize(inputBuffer[b].dtype),
                          !.length = @ - k * DTypeSize(inputBuffer[b].dtype)]]
    /\ call' = Call("consume", b, "thr1", None)
    /\ UNCHANGED <<workVars, active, _afBackend, _afDevice, _assumeArrayFireInputs,
                   activeBackend, activeDevice>>

\* ------------------------------------------------- block construction

\* DTypeSupport: the kinds of element type an operation supports, as the set of
\* its flags that are set.
SupportFlags == {"supportInt", "supportUInt", "supportFloat", "supportComplexFloat"}

\* Types not supported by any block.
globalUnsupportedTypes ==
    {"complex_int8", "complex_int16", "complex_int32", "complex_int64",
     "complex_uint8", "complex_uint16", "complex_uint32", "complex_uint64"}

\* Element types a factory is asked for: one of each supported kind, and the
\* complex-integer types.
DTypeArgs == {"int16", "uint8", "float32", "complex_float64"}
                 \cup globalUnsupportedTypes

\* The flags a factory is registered with: validateDType asserts that
\* *something* is supported.
SupportArgs == (SUBSET SupportFlags) \ {{}}

\* numChannels handed to the factory.
ChannelArgs == {0, 1, 2, 3}

\* isDTypeInt / isDTypeUInt / isDTypeFloat / isDTypeComplexFloat, as the flag
\* that has to be set for the type to be supported ("none": no flag covers it).
DTypeKind(dtype) ==
    CASE dtype \in {"int8", "int16", "int32", "int64"}      -> "supportInt"
      [] dtype \in {"uint8", "uint16", "uint32", "uint64"}  -> "supportUInt"
      [] dtype \in {"float32", "float64"}                   -> "supportFloat"
      [] dtype \in {"complex_float32", "complex_float64"}   -> "supportComplexFloat"
      [] OTHER                                              -> "none"

\* A validation that tests the type's class before the types no block supports.
validateDType_ClassFirst(dtype, supportedTypes) ==
    IF supportedTypes = {}
    THEN [exc |-> "AssertionFailure", msg |-> <<>>]
    ELSE IF DTypeKind(dtype) \notin supportedTypes
    THEN [exc |-> "InvalidArgumentException", msg |-> <<"Unsupported type", dtype>>]
    ELSE IF dtype \in globalUnsupportedTypes
    THEN [exc |-> "InvalidArgumentException",
          msg |-> <<"PothosGPU blocks do not support this type", dtype>>]
    ELSE [exc |-> None, msg |-> <<>>]

\* validateDType(dtype, supportedTypes): what it throws, if anything.
validateDType(dtype, supportedTypes) ==
    IF supportedTypes = {}
    THEN [exc |-> "AssertionFailure", msg |-> <<>>]
    ELSE IF dtype \in globalUnsupportedTypes
    THEN [exc |-> "InvalidArgumentException",
          msg |-> <<"PothosGPU blocks do not support this type", dtype>>]
    ELSE IF DTypeKind(dtype) \notin supportedTypes
    THEN [exc |-> "InvalidArgumentException", msg |-> <<"Unsupported type", dtype>>]
    ELSE [exc |-> None, msg |-> <<>>]

\* An NToOneBlock constructor that accepts any channel count.
NToOneBlock_AnyChannels(dtype, numChannels, shouldPostBuffer) ==
    [exc |-> None,
     block |-> [made |-> TRUE, kind |-> "NToOneBlock", _nchans |-> numChannels,
                _postBuffer |-> shouldPostBuffer,
                _numBins |-> 0, _func |-> "func",
                inputs |-> [chan \in 1..numChannels |-> dtype],
                outputs |-> <<dtype>>]]

\* NToOneBlock::NToOneBlock(device, func, dtype, numChannels, shouldPostBuffer):
\* what it throws, and the instance with the ports it set up (inputs[chan + 1]
\* is the element type of input port chan).
NToOneBlock(dtype, numChannels, shouldPostBuffer) ==
    IF numChannels < 2
    THEN [exc |-> "InvalidArgumentException", block |-> NoBlock]
    ELSE [exc |-> None,
          block |-> [made |-> TRUE, kind |-> "NToOneBlock", _nchans |-> numChannels,
                     _postBuffer |-> shouldPostBuffer,
                     _numBins |-> 0, _func |-> "func",
                     inputs |-> [chan \in 1..numChannels |-> dtype],
                     outputs |-> <<dtype>>]]

\* A factory that constructs the block before it validates the type.
make_ConstructFirst(dtype, numChannels, supportedTypes, shouldPostBuffer) ==
    LET made == NToOneBlock(dtype, numChannels, shouldPostBuffer)
        checked == validateDType(dtype, supportedTypes)
    IN  IF made.exc # None THEN made
        ELSE [exc |-> checked.exc, block |-> made.block]

\* NToOneBlock::make / makeCallable
make(dtype, numChannels, supportedTypes, shouldPostBuffer) ==
    LET checked == validateDType(dtype, supportedTypes)
    IN  IF checked.exc # None
        THEN [exc |-> checked.exc, block |-> NoBlock]
        ELSE NToOneBlock(dtype, numChannels, shouldPostBuffer)

\* The registered factory is called.
Make(dtype, numChannels, supportedTypes, shouldPostBuffer) ==
    /\ ~block.made
    /\ LET r == make(dtype, numChannels, supportedTypes, shouldPostBuffer)
       IN  /\ factory' = [op |-> "make", dtype |-> dtype, outputDType |-> dtype,
                          numChannels |-> numChannels,
                          supportedTypes |-> supportedTypes, exc |-> r.exc]
           /\ block' = r.block
    /\ UNCHANGED <<random, topology, active, _afBackend, _afDevice, _assumeArrayFireInputs,
                   activeBackend, activeDevice, inputBuffer, call,
                   ports, consumed, emitted>>

\* The constructor is called directly, by a caller that validated the type.
New(dtype, numChannels, shouldPostBuffer) ==
    /\ ~block.made
    /\ dtype \notin globalUnsupportedTypes
    /\ LET r == NToOneBlock(dtype, numChannels, shouldPostBuffer)
       IN  /\ factory' = [op |-> "NToOneBlock", dtype |-> dtype, outputDType |-> dtype,
                          numChannels |-> numChannels,
                          supportedTypes |-> {DTypeKind(dtype)}, exc |-> r.exc]
           /\ block' = r.block
    /\ UNCHANGED <<random, topology, active, _afBackend, _afDevice, _assumeArrayFireInputs,
                   activeBackend, activeDevice, inputBuffer, call,
                   ports, consumed, emitted>>

\* The block instance is destroyed.
Destroy ==
    /\ block.made
    /\ block' = NoBlock
    /\ UNCHANGED <<random, topology, active, _afBackend, _afDevice, _assumeArrayFireInputs,
                   activeBackend, activeDevice, inputBuffer, call,
                   factory, ports, consumed, emitted>>

\* ------------------------------------------------------ multi-port blocks

\* Element types of the blocks that are worked: a 1-byte and a 2-byte one.
WorkDTypes == {"uint8", "int16"}

\* The default of getInputPortAsAfArray's truncateToMinLength parameter.
truncateToMinLengthDefault == TRUE

\* BufferChunk::elements() of a port's buffer (0 when the port has none).
portElements(chunk) == IF chunk = NoChunk THEN 0 ELSE elements(chunk)

\* The smallest of a non-empty set of counts.
Minimum(counts) == CHOOSE m \in counts : \A k \in counts : m <= k

\* A minimum that is the largest of the counts.
minAllElements_Largest(ps, numInputs, room) ==
    CHOOSE m \in {portElements(ps[p]) : p \in 0..(numInputs - 1)} \cup {room} :
        \A k \in {portElements(ps[p]) : p \in 0..(numInputs - 1)} \cup {room} : k <= m

\* workInfo().minAllElements, as the runtime computes it before it calls
\* work(): the smallest element count over the block's input ports and its
\* output ports (`room`: the elements the output buffer has room for).
minAllElements(ps, numInputs, room) ==
    Minimum({portElements(ps[p]) : p \in 0..(numInputs - 1)} \cup {room})

\* What upstream put into the shared buffer behind port p: every byte differs
\* from its neighbours and from the other ports' bytes at the same place.
PortBytes(p, n) == [i \in 1..n |-> 10 * (p + 1) + i]

\* getInputPortAsAfArray(portId, truncateToMinLength) of a block that does not
\* assume foreign arrays, on the port's buffer `chunk`.
getInputPortAsAfArray(chunk, minLength, truncateToMinLength, ambient) ==
    IF minLength > portElements(chunk)
    THEN [exc |-> "AssertionFailure", ret |-> NoArray]
    ELSE [exc |-> None,
          ret |-> PlainPath(chunk, ambient, truncateToMinLength, minLength)]

\* _func.call(a, b): the block's binary function, applied element by element
\* (here to each byte: twice the left operand plus the right one, so that the
\* order and the grouping of the operands show).  Operands of different sizes
\* are an af::exception.
afFunc(a, b) ==
    IF a.exc # None THEN a
    ELSE IF b.exc # None THEN b
    ELSE IF a.ret.dims # b.ret.dims
    THEN [exc |-> "af::exception", ret |-> NoArray]
    ELSE [exc |-> None,
          ret |-> [a.ret EXCEPT !.data =
                      [i \in 1..Len(a.ret.data) |->
                          (2 * a.ret.data[i] + b.ret.data[i]) % 256]]]

\* The loop of NToOneBlock::work over channels 1 .. chan: outputAfArray after
\* channel chan.
RECURSIVE FoldChannels(_, _, _, _)
FoldChannels(ps, chan, elems, ambient) ==
    IF chan = 0
    THEN getInputPortAsAfArray(ps[0], elems, truncateToMinLengthDefault, ambient)
    ELSE afFunc(FoldChannels(ps, chan - 1, elems, ambient),
                getInputPortAsAfArray(ps[chan], elems, truncateToMinLengthDefault,
                                      ambient))

\* produceFromAfArray(portId, afArray): the array is written into the output
\* port's buffer and its elements are produced.
produceFromAfArray(portId, afArray) ==
    [port |-> portId, buffer |-> AfArrayToBufferChunk(afArray)]

\* The upstream block's buffer arrives on input port p: n elements that start
\* `offset` elements into their shared buffer.
FeedPort(p, n, offset) ==
    /\ block.made
    /\ p < Len(block.inputs)
    /\ ports[p] = NoChunk
    /\ consumed[p] = 0
    /\ offset + n <= MaxElems
    /\ LET dtype == block.inputs[p + 1]
       IN  ports' = [ports EXCEPT ![p] =
               [empty |-> FALSE, dtype |-> dtype,
                mem |-> PortBytes(p, (offset + n) * DTypeSize(dtype)),
                bufferAddress |-> 0, address |-> offset * DTypeSize(dtype),
                length |-> n * DTypeSize(dtype), container |-> NoArray]]
    /\ call' = Call("feed", "worked", "thr1", None)
    /\ UNCHANGED <<random, topology, active, _afBackend, _afDevice, _assumeArrayFireInputs,
                   activeBackend, activeDevice, inputBuffer,
                   factory, block, consumed, emitted>>

\* NToOneBlock::work(), called by the runtime with room for `room` elements on
\* the output port.
Work(room) ==
    LET elems == minAllElements(ports, block._nchans, room)
        r == FoldChannels(ports, block._nchans - 1, elems, activeBackend["thr1"])
        c == [Call("work", "worked", "thr1", None) EXCEPT
                 !.minLength = elems, !.truncate = truncateToMinLengthDefault]
    IN  /\ block.kind = "NToOneBlock"
        /\ emitted <= MaxElems
        /\ IF elems = 0
           THEN /\ call' = c
                /\ emitted' = emitted
           ELSE IF r.exc # None
           THEN /\ call' = [c EXCEPT !.exc = r.exc]
                /\ emitted' = emitted
           ELSE /\ call' = [c EXCEPT
                               !.ret = r.ret,
                               !.out = IF block._postBuffer
                                       THEN <<_postAfArray(0, r.ret)>>
                                       ELSE <<produceFromAfArray(0, r.ret)>>]
                /\ emitted' = emitted + afElements(r.ret)
        /\ UNCHANGED <<random, topology, active, _afBackend, _afDevice, _assumeArrayFireInputs,
                       activeBackend, activeDevice, inputBuffer,
                       factory, block, ports, consumed>>

\* ------------------------------------------------ gather and scatter (2-D)

\* OneToOneBlock::OneToOneBlock(func, inputDType, outputDType, nchans): a block
\* of nchans numbered input ports and nchans numbered output ports.
OneToOneBlock(dtype, nchans) ==
    [exc |-> None,
     block |-> [made |-> TRUE, kind |-> "OneToOneBlock", _nchans |-> nchans,
                _postBuffer |-> TRUE,
                _numBins |-> 0, _func |-> "func",
                inputs |-> [chan \in 1..nchans |-> dtype],
                outputs |-> [chan \in 1..nchans |-> dtype]]]

\* workInfo().minElements: the smallest element count over the numbered input
\* and output ports.
minElements(ps, numInputs, room) ==
    Minimum({portElements(ps[p]) : p \in 0..(numInputs - 1)} \cup {room})

\* af::array(dim0, dim1, afDType): a column-major array of dim0 rows whose
\* memory is not initialised.
afNewArray2D(backend, afDType, dim0, dim1, garbage) ==
    [null |-> FALSE, backend |-> backend, type |-> afDType,
     dims |-> <<dim0, dim1, 1, 1>>,
     data |-> [i \in 1..(dim0 * dim1 * afGetSizeOf(afDType)) |-> garbage]]

\* A row that is the row-th run of consecutive elements of the array's memory.
afRow_Contiguous(arr, row) ==
    LET size == afGetSizeOf(arr.type)
        dim1 == arr.dims[2]
    IN  [arr EXCEPT !.dims = <<1, dim1, 1, 1>>,
                    !.data = [j \in 1..(dim1 * size) |->
                                 arr.data[row * dim1 * size + j]]]

\* af::array::row(row): element c of the row is element (row, c) of the array,
\* which column-major memory holds at place c * dim0 + row.
afRow(arr, row) ==
    LET size == afGetSizeOf(arr.type)
        dim0 == arr.dims[1]
        dim1 == arr.dims[2]
    IN  [arr EXCEPT !.dims = <<1, dim1, 1, 1>>,
                    !.data = [j \in 1..(dim1 * size) |->
                                 arr.data[(((j - 1) \div size) * dim0 + row) * size
                                          + ((j - 1) % size) + 1]]]

\* ret.row(row) = src: the row's elements become src's.  A src of another
\* element count is an af::exception, except that a library whose assignment
\* `tiles` repeats a src of one element over the row and ignores an empty src.
afRowAssign(arr, row, src, tiles) ==
    LET size == afGetSizeOf(arr.type)
        dim0 == arr.dims[1]
        n == afElements(src)
    IN  IF n = arr.dims[2]
        THEN [exc |-> None,
              ret |-> [arr EXCEPT !.data =
                          [j \in 1..Len(arr.data) |->
                              IF ((j - 1) \div size) % dim0 = row
                              THEN src.data[(((j - 1) \div size) \div dim0) * size
                                            + ((j - 1) % size) + 1]
                              ELSE arr.data[j]]]]
        ELSE IF tiles /\ n = 1
        THEN [exc |-> None,
              ret |-> [arr EXCEPT !.data =
                          [j \in 1..Len(arr.data) |->
                              IF ((j - 1) \div size) % dim0 = row
                              THEN src.data[((j - 1) % size) + 1]
                              ELSE arr.data[j]]]]
        ELSE IF tiles /\ n = 0
        THEN [exc |-> None, ret |-> arr]
        ELSE [exc |-> "af::exception", ret |-> NoArray]

\* The loop of getNumberedInputPortsAs2DAfArray over rows 0 .. row.
RECURSIVE FillRows(_, _, _, _, _, _)
FillRows(ret, ps, row, minLength, ambient, tiles) ==
    LET before == IF row = 0 THEN [exc |-> None, ret |-> ret]
                  ELSE FillRows(ret, ps, row - 1, minLength, ambient, tiles)
        read == getInputPortAsAfArray(ps[row], minLength,
                                      truncateToMinLengthDefault, ambient)
    IN  IF before.exc # None THEN before
        ELSE IF read.exc # None THEN read
        ELSE afRowAssign(before.ret, row, read.ret, tiles)

\* InputPort::consume(k), as the port shows it at the next work call.
consume(chunk, k) ==
    IF k = portElements(chunk) THEN NoChunk
    ELSE [chunk EXCEPT !.address = @ + k * DTypeSize(chunk.dtype),
                       !.length = @ - k * DTypeSize(chunk.dtype)]

\* A gather that leaves the last port unconsumed.
GetNumberedInputPortsAs2DAfArray_SkipLast(room, garbage) ==
    LET dim0 == Len(block.inputs)
        dim1 == minElements(ports, dim0, room)
        minLength == minAllElements(ports, dim0, room)
        afDType == DTypeToAf(block.inputs[1])
        r == FillRows(afNewArray2D(activeBackend["thr1"], afDType, dim0, dim1, garbage),
                      ports, dim0 - 1, minLength, activeBackend["thr1"], FALSE)
        c == [Call("getNumberedInputPortsAs2DAfArray", "worked", "thr1", None) EXCEPT
                 !.minLength = dim1, !.truncate = truncateToMinLengthDefault]
    IN  /\ block.kind = "OneToOneBlock"
        /\ \A p \in 0..(dim0 - 1) : ports[p] # NoChunk
        /\ call' = [c EXCEPT !.ret = r.ret, !.exc = r.exc]
        /\ ports' = [p \in PortIds |->
                        IF p < dim0 - 1 THEN consume(ports[p], dim1) ELSE ports[p]]
        /\ consumed' = [p \in PortIds |->
                           IF p < dim0 - 1 THEN consumed[p] + dim1 ELSE consumed[p]]
        /\ UNCHANGED <<random, topology, active, _afBackend, _afDevice, _assumeArrayFireInputs,
                       activeBackend, activeDevice, inputBuffer,
                       factory, block, emitted>>

\* The element counts the further (named) ports of a block can hold; the
\* blocks of the work calls above have none.
NamedPortArgs == {{n} : n \in 0..MaxElems}

\* getNumberedInputPortsAs2DAfArray() of a block whose ports besides the
\* numbered ones hold `named` elements: dim1 is the minimum over the numbered
\* ports, the bridge truncates to the minimum over all ports, and a port is
\* consumed when its row was assigned.
Gather2D(room, named, garbage, tiles) ==
    LET dim0 == Len(block.inputs)
        dim1 == minElements(ports, dim0, room)
        minLength == Minimum({minAllElements(ports, dim0, room)} \cup named)
        afDType == DTypeToAf(block.inputs[1])
        ambient == activeBackend["thr1"]
        ret == afNewArray2D(ambient, afDType, dim0, dim1, garbage)
        r == FillRows(ret, ports, dim0 - 1, minLength, ambient, tiles)
        assigned(row) == FillRows(ret, ports, row, minLength, ambient, tiles).exc = None
        read(row) == getInputPortAsAfArray(ports[row], minLength,
                                           truncateToMinLengthDefault, ambient)
        c == [Call("getNumberedInputPortsAs2DAfArray", "worked", "thr1", named) EXCEPT
                 !.minLength = dim1, !.truncate = truncateToMinLengthDefault,
                 !.value = [i \in 1..dim0 |->
                               IF assigned(i - 1) THEN afElements(read(i - 1).ret)
                               ELSE 0]]
    IN  /\ block.kind = "OneToOneBlock"
        /\ \A p \in 0..(dim0 - 1) : ports[p] # NoChunk
        /\ call' = IF r.exc # None THEN [c EXCEPT !.exc = r.exc]
                   ELSE [c EXCEPT !.ret = r.ret]
        /\ ports' = [p \in PortIds |->
                        IF p < dim0 /\ assigned(p) THEN consume(ports[p], dim1)
                        ELSE ports[p]]
        /\ consumed' = [p \in PortIds |->
                           IF p < dim0 /\ assigned(p) THEN consumed[p] + dim1
                           ELSE consumed[p]]
        /\ UNCHANGED <<random, topology, active, _afBackend, _afDevice, _assumeArrayFireInputs,
                       activeBackend, activeDevice, inputBuffer,
                       factory, block, emitted>>

\* getNumberedInputPortsAs2DAfArray(), called from work() with room for `room`
\* elements on every output port; every input port has a buffer and the block
\* has numbered ports only.
GetNumberedInputPortsAs2DAfArray(room, garbage) ==
    \E tiles \in BOOLEAN : Gather2D(room, {}, garbage, tiles)

\* The same call on a block that has a named port as well.
GetNumberedInputPortsAs2DAfArrayWithNamedPort(room, named, garbage, tiles) ==
    Gather2D(room, named, garbage, tiles)

\* post2DAfArrayToNumberedOutputPorts(afArray), called from the work() that
\* gathered its input ports, with an array of `rows` rows of as many elements
\* as were gathered from each port.
Post2DAfArrayToNumberedOutputPorts(rows) ==
    LET afDType == DTypeToAf(block.outputs[1])
        cols == call.ret.dims[2]
        afArray == [null |-> FALSE, backend |-> activeBackend["thr1"],
                    type |-> afDType, dims |-> <<rows, cols, 1, 1>>,
                    data |-> Bytes(rows * cols * afGetSizeOf(afDType))]
        numOutputs == Len(block.outputs)
        c == [Call("post2DAfArrayToNumberedOutputPorts", "worked", "thr1", None)
                 EXCEPT !.ret = afArray]
    IN  /\ block.kind = "OneToOneBlock"
        /\ call.op = "getNumberedInputPortsAs2DAfArray"
        /\ call.exc = None
        /\ IF numOutputs # afArray.dims[1]
           THEN /\ call' = [c EXCEPT !.exc = "AssertionFailure"]
                /\ emitted' = emitted
           ELSE /\ call' = [c EXCEPT !.out =
                               [i \in 1..numOutputs |->
                                   _postAfArray(i - 1, afRow(afArray, i - 1))]]
                /\ emitted' = emitted + rows * cols
        /\ UNCHANGED <<random, topology, active, _afBackend, _afDevice, _assumeArrayFireInputs,
                       activeBackend, activeDevice, inputBuffer,
                       factory, block, ports, consumed>>

\* ------------------------------------------------------------ cast factory

\* The element types the cast factory is asked for, and the channel counts.
CastDTypes ==
    {"int16", "int32", "int64", "uint8", "uint16", "uint32", "uint64",
     "float32", "float64", "complex_float32", "complex_float64"}

CastChannelArgs == {1, 3}

\* Pothos::DType::isComplex()
isComplex(dtype) ==
    dtype \in {"complex_float32", "complex_float64"} \cup globalUnsupportedTypes

\* isDTypeComplexFloat(dtype)
isDTypeComplexFloat(dtype) == DTypeKind(dtype) = "supportComplexFloat"

\* A validation that lets a complex input through to its own type only.
validateCastTypes_SameTypeOnly(inputDType, outputDType) ==
    IF isDTypeComplexFloat(inputDType) /\ outputDType # inputDType
    THEN [exc |-> "InvalidArgumentException",
          msg |-> <<"This block cannot perform complex to scalar conversions.">>]
    ELSE [exc |-> None, msg |-> <<>>]

\* validateCastTypes(inputDType, outputDType): what it throws, if anything.
validateCastTypes(inputDType, outputDType) ==
    IF isDTypeComplexFloat(inputDType) /\ ~isComplex(outputDType)
    THEN [exc |-> "InvalidArgumentException",
          msg |-> <<"This block cannot perform complex to scalar conversions.">>]
    ELSE [exc |-> None, msg |-> <<>>]

\* CastBlock::CastBlock(inputDType, outputDType, nchans): a one-to-one block
\* whose output ports carry outputDType.
CastBlock(inputDType, outputDType, nchans) ==
    [OneToOneBlock(inputDType, nchans) EXCEPT
        !.block.kind = "CastBlock",
        !.block.outputs = [chan \in 1..nchans |-> outputDType]]

\* CastBlock::make(inputDType, outputDType, nchans)
CastBlock_make(inputDType, outputDType, nchans) ==
    LET checked == validateCastTypes(inputDType, outputDType)
    IN  IF checked.exc # None
        THEN [exc |-> checked.exc, block |-> NoBlock]
        ELSE CastBlock(inputDType, outputDType, nchans)

\* The factory /arrayfire/stream/cast is called.
MakeCast(inputDType, outputDType, nchans) ==
    /\ ~block.made
    /\ LET r == CastBlock_make(inputDType, outputDType, nchans)
       IN  /\ factory' = [op |-> "CastBlock::make", dtype |-> inputDType,
                          outputDType |-> outputDType, numChannels |-> nchans,
                          supportedTypes |-> {}, exc |-> r.exc]
           /\ block' = r.block
    /\ UNCHANGED <<random, topology, active, _afBackend, _afDevice, _assumeArrayFireInputs,
                   activeBackend, activeDevice, inputBuffer, call,
                   ports, consumed, emitted>>

\* ------------------------------------------------- complex combine / split

\* The element types the two factories accept: float and double.
ComplexDTypes == {"float32", "float64"}

\* The two chains of a combine block and a split block.
Chains == {"combineToSplit", "splitToCombine"}

\* std::complex<T>
ComplexType(T) == IF T = "float32" THEN "complex_float32" ELSE "complex_float64"

\* The element type the constructors set a port up with: ports "re" and "im"
\* carry T, port 0 carries std::complex<T>, on either block.
PortDType(p, T) == IF p = "0" THEN ComplexType(T) ELSE T

\* The ports a chain is fed on, which are also the names of the ports it is
\* collected from: "re" and "im" of combine -> split, 0 of split -> combine.
StreamPorts(chain) == IF chain = "combineToSplit" THEN {"re", "im"} ELSE {"0"}

\* The bytes of the test inputs fed on port p: every byte differs from its
\* neighbours and from the byte at the same place of the other stream.
StreamBytes(p, n) ==
    [i \in 1..n |-> (IF p = "re" THEN 100 ELSE IF p = "im" THEN 200 ELSE 0) + i]

\* af::complex(re, im): the complex array of the two real arrays, element k
\* being (re[k], im[k]); operands of different sizes are an af::exception.
afComplex(re, im) ==
    IF re.dims # im.dims \/ re.type # im.type
    THEN [exc |-> "af::exception", ret |-> NoArray]
    ELSE LET size == afGetSizeOf(re.type)
             n == afElements(re)
         IN  [exc |-> None,
              ret |-> AfArray(re.backend, DTypeToAf(ComplexType(AfToDType(re.type))), n,
                          [i \in 1..(2 * n * size) |->
                              LET k == (i - 1) \div (2 * size)
                                  r == (i - 1) % (2 * size)
                              IN  IF r < size
                                  THEN re.data[k * size + r + 1]
                                  ELSE im.data[k * size + (r - size) + 1]])]

\* af::real(z) and af::imag(z): the real array of the first, and of the second,
\* component of every element.
afComponent(z, which) ==
    LET size == afGetSizeOf(z.type) \div 2
        n == afElements(z)
        T == IF z.type = "c32" THEN "f32" ELSE "f64"
    IN  AfArray(z.backend, T, n,
            [i \in 1..(n * size) |->
                z.data[((i - 1) \div size) * 2 * size + which * size
                       + ((i - 1) % size) + 1]])

afReal(z) == afComponent(z, 0)

afImag(z) == afComponent(z, 1)

\* A produced buffer arrives on an input port: it follows what the port holds.
Arrive(chunk, buffer) ==
    IF chunk = NoChunk THEN buffer
    ELSE [chunk EXCEPT !.mem = chunk.mem \o ChunkBytesOf(buffer),
                       !.length = chunk.length + buffer.length]

\* What the outputs of a work call of `producer` do to the topology: the first
\* block's buffers arrive on the second block's input ports, the second block's
\* are appended to what the collector sinks hold.
Deliver(top, producer, out) ==
    LET last == IF top.chain = "combineToSplit" THEN "split" ELSE "combine"
        bufferOn(p) == (CHOOSE i \in 1..Len(out) : out[i].port = p)
        produced(p) == \E i \in 1..Len(out) : out[i].port = p
    IN  IF producer = last
        THEN [top EXCEPT !.collected =
                 [p \in ComplexPorts |->
                     IF produced(p)
                     THEN top.collected[p] \o ChunkBytesOf(out[bufferOn(p)].buffer)
                     ELSE top.collected[p]]]
        ELSE [top EXCEPT !.inputs =
                 [p \in ComplexPorts |->
                     IF produced(p)
                     THEN Arrive(top.inputs[p], out[bufferOn(p)].buffer)
                     ELSE top.inputs[p]]]

\* The elements a block's downstream holds: on the next block's input ports,
\* or in the collector sinks.
Downstream(top, producer) ==
    LET last == IF top.chain = "combineToSplit" THEN "split" ELSE "combine"
        p == IF producer = "combine" THEN "0" ELSE "re"
    IN  IF producer = last
        THEN Len(top.collected[p]) \div DTypeSize(PortDType(p, top.T))
        ELSE portElements(top.inputs[p])

\* feeder_source.feedBuffer(testInputs): the test inputs, top.fed elements,
\* arrive on port p of the chain's first block as one buffer.
FeedBuffer(p) ==
    /\ topology.chain # None
    /\ p \in StreamPorts(topology.chain)
    /\ topology.inputs[p] = NoChunk
    /\ LET dtype == PortDType(p, topology.T)
           length == topology.fed * DTypeSize(dtype)
       IN  topology' = [topology EXCEPT !.inputs[p] =
               [empty |-> FALSE, dtype |-> dtype, mem |-> StreamBytes(p, length),
                bufferAddress |-> 0, address |-> 0, length |-> length,
                container |-> NoArray]]
    /\ call' = Call("feedBuffer", "feeder_source", "thr1", p)
    /\ UNCHANGED <<random, active, _afBackend, _afDevice, _assumeArrayFireInputs,
                   activeBackend, activeDevice, inputBuffer,
                   factory, block, ports, consumed, emitted>>

\* CombineComplex<T>::work(), called by the runtime with room for `room`
\* elements on output port 0.
CombineWork(room) ==
    LET ambient == activeBackend["thr1"]
        ps == [p \in {0, 1} |-> topology.inputs[IF p = 0 THEN "re" ELSE "im"]]
        elems == minAllElements(ps, 2, room)
        afRealIn == getInputPortAsAfArray(topology.inputs["re"], elems,
                                          truncateToMinLengthDefault, ambient)
        afImagIn == getInputPortAsAfArray(topology.inputs["im"], elems,
                                          truncateToMinLengthDefault, ambient)
        z == afComplex(afRealIn.ret, afImagIn.ret)
        c == [Call("work", "combine", "thr1", None) EXCEPT
                 !.minLength = elems, !.truncate = truncateToMinLengthDefault]
    IN  /\ topology.chain # None
        /\ Downstream(topology, "combine") <= MaxElems
        /\ IF elems = 0
           THEN /\ call' = c
                /\ topology' = topology
           ELSE IF afRealIn.exc # None \/ afImagIn.exc # None \/ z.exc # None
           THEN /\ call' = [c EXCEPT !.exc =
                               IF afRealIn.exc # None THEN afRealIn.exc
                               ELSE IF afImagIn.exc # None THEN afImagIn.exc
                               ELSE z.exc]
                /\ topology' = topology
           ELSE LET out == <<produceFromAfArray("0", z.ret)>>
                IN  /\ call' = [c EXCEPT !.ret = z.ret, !.out = out]
                    /\ topology' = Deliver(topology, "combine", out)
        /\ UNCHANGED <<random, active, _afBackend, _afDevice, _assumeArrayFireInputs,
                       activeBackend, activeDevice, inputBuffer,
                       factory, block, ports, consumed, emitted>>

\* SplitComplex<T>::work(), called by the runtime with room for `room`
\* elements on each of the output ports "re" and "im".
SplitWork(room) ==
    LET ambient == activeBackend["thr1"]
        ps == [p \in {0} |-> topology.inputs["0"]]
        elems == minAllElements(ps, 1, room)
        afInput == getInputPortAsAfArray(topology.inputs["0"], elems,
                                         truncateToMinLengthDefault, ambient)
        c == [Call("work", "split", "thr1", None) EXCEPT
                 !.minLength = elems, !.truncate = truncateToMinLengthDefault]
    IN  /\ topology.chain # None
        /\ Downstream(topology, "split") <= MaxElems
        /\ IF elems = 0
           THEN /\ call' = c
                /\ topology' = topology
           ELSE IF afInput.exc # None
           THEN /\ call' = [c EXCEPT !.exc = afInput.exc]
                /\ topology' = topology
           ELSE LET out == <<produceFromAfArray("re", afReal(afInput.ret)),
                             produceFromAfArray("im", afImag(afInput.ret))>>
                IN  /\ call' = [c EXCEPT !.ret = afInput.ret, !.out = out]
                    /\ topology' = Deliver(topology, "split", out)
        /\ UNCHANGED <<random, active, _afBackend, _afDevice, _assumeArrayFireInputs,
                       activeBackend, activeDevice, inputBuffer,
                       factory, block, ports, consumed, emitted>>

\* --------------------------------------------------------------- FFT blocks

\* Element types and numBins the FFT factories are asked for.
FFTDTypeArgs == {"int16", "float32", "float64", "complex_float32", "complex_float64"}

NumBinsArgs == 0..MaxElems

\* FFTBaseBlock<In, Out>::FFTBaseBlock(device, numBins, norm, dtypeDims, path):
\* one input port of In and one output port of Out.
FFTBaseBlock(kind, In, Out, func, numBins) ==
    [exc |-> None,
     block |-> [made |-> TRUE, kind |-> kind, _nchans |-> 1, _postBuffer |-> FALSE,
                _numBins |-> numBins, _func |-> func,
                inputs |-> <<In>>, outputs |-> <<Out>>]]

\* makeFFT(device, dtype, numBins, norm, inverse)
makeFFT(dtype, numBins, inverse) ==
    IF dtype \in {"complex_float32", "complex_float64"}
    THEN FFTBaseBlock("FFTBlock", dtype, dtype,
                      IF inverse THEN "ifftInPlace" ELSE "fftInPlace", numBins)
    ELSE [exc |-> "InvalidArgumentException", block |-> NoBlock]

\* makeRFFT(device, dtype, numBins, norm, inverse): RFFTBlock<T, complex<T>>
\* when inverse, RFFTBlock<complex<T>, T> otherwise, the first template
\* argument being the input type.
makeRFFT(dtype, numBins, inverse) ==
    LET func == IF inverse
                THEN (IF numBins % 2 = 1 THEN "fftC2R odd" ELSE "fftC2R even")
                ELSE "fftR2C"
    IN  IF dtype \in {"float32", "float64"}
        THEN IF inverse
             THEN FFTBaseBlock("RFFTBlock", dtype, ComplexType(dtype), func, numBins)
             ELSE FFTBaseBlock("RFFTBlock", ComplexType(dtype), dtype, func, numBins)
        ELSE [exc |-> "InvalidArgumentException", block |-> NoBlock]

\* One of the two registered factories is called.
MakeFFT(path, dtype, numBins, inverse) ==
    /\ ~block.made
    /\ LET r == IF path = "/arrayfire/signal/fft"
                THEN makeFFT(dtype, numBins, inverse)
                ELSE makeRFFT(dtype, numBins, inverse)
       IN  /\ factory' = [op |-> path, dtype |-> dtype,
                          outputDType |-> IF inverse THEN "inverse" ELSE "forward",
                          numChannels |-> numBins,
                          supportedTypes |-> {}, exc |-> r.exc]
           /\ block' = r.block
    /\ UNCHANGED <<random, topology, active, _afBackend, _afDevice, _assumeArrayFireInputs,
                   activeBackend, activeDevice, inputBuffer, call,
                   ports, consumed, emitted>>

\* The sum of a sequence of bytes.
RECURSIVE SumBytes(_)
SumBytes(data) == IF data = <<>> THEN 0 ELSE Head(data) + SumBytes(Tail(data))

\* _func(afArray, norm): the transform over the whole of the array it is given
\* (every output byte depends on every input byte).  The in-place transforms
\* keep type and size; fftR2C takes a real array of n elements to a complex one
\* of n / 2 + 1, fftC2R a complex one to a real one of 2 (n - 1) elements, one
\* more when odd; an operand of the other kind is an af::exception.  An empty
\* operand is an error or not (emptyFails).
afFFT(func, arr, emptyFails) ==
    LET n == afElements(arr)
        isCplx == arr.type \in {"c32", "c64"}
        outType == IF func = "fftR2C"
                   THEN (IF arr.type = "f32" THEN "c32" ELSE "c64")
                   ELSE IF func \in {"fftC2R odd", "fftC2R even"}
                   THEN (IF arr.type = "c32" THEN "f32" ELSE "f64")
                   ELSE arr.type
        outN == IF func = "fftR2C" THEN n \div 2 + 1
                ELSE IF func = "fftC2R odd" THEN 2 * (n - 1) + 1
                ELSE IF func = "fftC2R even" THEN 2 * (n - 1)
                ELSE n
    IN  IF (func = "fftR2C" /\ isCplx) \/ (func # "fftR2C" /\ ~isCplx)
        THEN [exc |-> "af::exception", ret |-> NoArray]
        ELSE IF n = 0
        THEN IF emptyFails THEN [exc |-> "af::exception", ret |-> NoArray]
             ELSE [exc |-> None, ret |-> AfArray(arr.backend, outType, 0, <<>>)]
        ELSE [exc |-> None,
              ret |-> AfArray(arr.backend, outType, outN,
                          [i \in 1..(outN * afGetSizeOf(outType)) |->
                              (SumBytes(arr.data) + i) % 256])]

\* FFTBlock<T>::work() and RFFTBlock<In, Out>::work(), called by the runtime
\* with room for `room` elements on the output port.
FFTWork(room, emptyFails) ==
    LET ambient == activeBackend["thr1"]
        elems == minElements(ports, 1, room)
        c == [Call("work", "worked", "thr1", None) EXCEPT
                 !.minLength = elems, !.truncate = truncateToMinLengthDefault]
        afInput == IF ports[0] = NoChunk
                   THEN [exc |-> None,
                         ret |-> AfArray(ambient, DTypeToAf(block.inputs[1]), 0, <<>>)]
                   ELSE getInputPortAsAfArray(ports[0], minAllElements(ports, 1, room),
                                              truncateToMinLengthDefault, ambient)
        afOutput == afFFT(block._func, afInput.ret, emptyFails)
    IN  /\ block.kind \in {"FFTBlock", "RFFTBlock"}
        /\ emitted <= MaxElems
        /\ IF elems < block._numBins
           THEN /\ call' = c
                /\ emitted' = emitted
           ELSE IF afInput.exc # None \/ afOutput.exc # None
           THEN /\ call' = [c EXCEPT !.path = "plain", !.ret = afInput.ret,
                                     !.exc = IF afInput.exc # None THEN afInput.exc
                                             ELSE afOutput.exc]
                /\ emitted' = emitted
           ELSE /\ call' = [c EXCEPT !.path = "plain", !.ret = afInput.ret,
                                     !.out = <<produceFromAfArray(0, afOutput.ret)>>]
                /\ emitted' = emitted + afElements(afOutput.ret)
        /\ UNCHANGED <<random, topology, active, _afBackend, _afDevice, _assumeArrayFireInputs,
                       activeBackend, activeDevice, inputBuffer,
                       factory, block, ports, consumed>>

\* ------------------------------------------------------------ random source

\* Strings handed to setDistribution and to the factory.
DistributionArgs == {"UNIFORM", "NORMAL", "uniform", "GAUSSIAN", ""}

\* The signals a block emits are recorded up to this many.
MaxSignals == 5

\* A setter that stores the string before it looks at it.
setDistribution_StoreFirst(r, distribution) ==
    IF distribution \in {"UNIFORM", "NORMAL"}
    THEN [exc |-> None,
          random |-> [r EXCEPT
              !._afRandomFunc = IF distribution = "UNIFORM" THEN "af::randu"
                                ELSE "af::randn",
              !._distribution = distribution,
              !.signals = Append(@, <<"distributionChanged", distribution>>)]]
    ELSE [exc |-> "InvalidArgumentException",
          random |-> [r EXCEPT !._distribution = distribution]]

\* RandomBlock::setDistribution(distribution) on the block r: what it throws,
\* and the block it leaves.
setDistribution(r, distribution) ==
    IF distribution = "UNIFORM"
    THEN [exc |-> None,
          random |-> [r EXCEPT !._afRandomFunc = "af::randu",
                               !._distribution = distribution,
                               !.signals = Append(@, <<"distributionChanged",
                                                       distribution>>)]]
    ELSE IF distribution = "NORMAL"
    THEN [exc |-> None,
          random |-> [r EXCEPT !._afRandomFunc = "af::randn",
                               !._distribution = distribution,
                               !.signals = Append(@, <<"distributionChanged",
                                                       distribution>>)]]
    ELSE [exc |-> "InvalidArgumentException", random |-> r]

\* RandomBlock::RandomBlock(device, dtype, distribution): the members are
\* initialised empty and set by the class setter; when it throws there is no
\* block.
RandomBlock(distribution) ==
    LET r == setDistribution([made |-> TRUE, _afRandomFunc |-> None,
                              _distribution |-> "", signals |-> <<>>],
                             distribution)
    IN  IF r.exc # None THEN [exc |-> r.exc, random |-> NoRandomBlock] ELSE r

\* The factory /arrayfire/random/source is called.
MakeRandom(distribution) ==
    /\ ~random.made
    /\ LET r == RandomBlock(distribution)
       IN  /\ random' = r.random
           /\ call' = [Call("make", "random", "thr1", distribution) EXCEPT
                          !.exc = r.exc]
    /\ UNCHANGED <<active, _afBackend, _afDevice, _assumeArrayFireInputs,
                   activeBackend, activeDevice, inputBuffer,
                   factory, block, ports, consumed, emitted, topology>>

\* The registered call setDistribution is made.
SetDistribution(distribution) ==
    /\ random.made
    /\ Len(random.signals) < MaxSignals
    /\ LET r == setDistribution(random, distribution)
       IN  /\ random' = r.random
           /\ call' = [Call("setDistribution", "random", "thr1", distribution) EXCEPT
                          !.exc = r.exc]
    /\ UNCHANGED <<active, _afBackend, _afDevice, _assumeArrayFireInputs,
                   activeBackend, activeDevice, inputBuffer,
                   factory, block, ports, consumed, emitted, topology>>

\* The registered call (and probe) getDistribution is made.
GetDistribution ==
    /\ random.made
    /\ call' = [Call("getDistribution", "random", "thr1", None) EXCEPT
                   !.value = random._distribution]
    /\ UNCHANGED <<active, _afBackend, _afDevice, _assumeArrayFireInputs,
                   activeBackend, activeDevice, inputBuffer,
                   factory, block, ports, consumed, emitted, topology, random>>

\* ------------------------------------------------------------ specification

Next ==
    \/ \E b \in Blocks : Activate(b)
    \/ \E b \in Blocks : Deactivate(b)
    \/ \E b \in Blocks, t \in Threads, backend \in BackendArgs :
           SetArrayFireBackend(b, t, backend)
    \/ \E b \in Blocks, t \in Threads, device \in DeviceArgs :
           SetArrayFireDevice(b, t, device)

Spec == Init /\ [][Next]_vars

\* The same calls on a machine one of whose backends has no device.
NextRegistry ==
    \/ \E b \in Blocks : Activate(b)
    \/ \E b \in Blocks : Deactivate(b)
    \/ \E b \in Blocks, t \in Threads, backend \in RegistryBackendArgs :
           SetArrayFireBackend(b, t, backend)
    \/ \E b \in Blocks, t \in Threads, device \in DeviceArgs :
           SetArrayFireDevice(b, t, device)

SpecRegistry == Init /\ [][NextRegistry]_vars

\* The block that is fed and worked, and the worker thread that runs its work()
\* and, between work calls, the calls made on the other block.
WorkBlocks == {"blk1"}
WorkThreads == {"thr1"}

NextBridge ==
    \/ \E b \in WorkBlocks : Activate(b)
    \/ \E b \in WorkBlocks : Deactivate(b)
    \/ \E b \in Blocks, t \in WorkThreads, backend \in BackendArgs :
           SetArrayFireBackend(b, t, backend)
    \/ \E b \in WorkBlocks, value \in BOOLEAN :
           SetBlockAssumesArrayFireInputs(b, value)
    \/ \E b \in WorkBlocks, dtype \in DTypes, n \in 1..MaxElems,
           kind \in {"plain"} \cup Backends :
           Feed(b, dtype, n, kind)
    \/ \E b \in WorkBlocks, k \in 1..MaxElems : Consume(b, k)
    \/ \E b \in WorkBlocks, t \in WorkThreads, truncateToMinLength \in BOOLEAN,
           minLength \in 0..MaxElems, garbage \in GarbageBytes :
           GetInputPortAsAfArray(b, t, truncateToMinLength, minLength, garbage)
    \/ \E b \in WorkBlocks : PostAfArray(b)

SpecBridge == Init /\ [][NextBridge]_vars

\* The bridge with library calls that can fail during the transit.
NextTransit ==
    \/ NextBridge
    \/ \E b \in WorkBlocks, t \in WorkThreads, truncateToMinLength \in BOOLEAN,
           minLength \in 0..MaxElems, failed \in DOMAIN TransitCalls :
           GetInputPortAsAfArrayTransitFails(b, t, truncateToMinLength, minLength, failed)

SpecTransit == Init /\ [][NextTransit]_vars

NextMake ==
    \/ \E dtype \in DTypeArgs, numChannels \in ChannelArgs,
          supportedTypes \in SupportArgs, shouldPostBuffer \in BOOLEAN :
           Make(dtype, numChannels, supportedTypes, shouldPostBuffer)
    \/ \E dtype \in DTypeArgs, numChannels \in ChannelArgs,
          shouldPostBuffer \in BOOLEAN :
           New(dtype, numChannels, shouldPostBuffer)
    \/ \E inputDType \in CastDTypes, outputDType \in CastDTypes,
          nchans \in CastChannelArgs :
           MakeCast(inputDType, outputDType, nchans)
    \/ \E path \in {"/arrayfire/signal/fft", "/arrayfire/signal/rfft"},
          dtype \in FFTDTypeArgs, numBins \in NumBinsArgs, inverse \in BOOLEAN :
           MakeFFT(path, dtype, numBins, inverse)
    \/ Destroy

SpecMake == Init /\ [][NextMake]_vars

\* A block the factories construct, N-to-one or one-to-one, with its ports still
\* empty.
InitWork ==
    /\ active = [b \in Blocks |-> FALSE]
    /\ _assumeArrayFireInputs = [b \in Blocks |-> FALSE]
    /\ activeBackend = [t \in Threads |-> DefaultBackend]
    /\ activeDevice = [t \in Threads |-> [k \in Backends |-> DefaultDevice(k)]]
    /\ _afBackend = [b \in Blocks |-> DefaultBackend]
    /\ _afDevice = [b \in Blocks |-> 0]
    /\ inputBuffer = [b \in Blocks |-> NoChunk]
    /\ call = Call("construct", "worked", "thr1", None)
    /\ \/ \E dtype \in WorkDTypes, numChannels \in {2, 3}, shouldPostBuffer \in BOOLEAN :
             /\ factory = [op |-> "make", dtype |-> dtype, outputDType |-> dtype,
                          numChannels |-> numChannels,
                          supportedTypes |-> SupportFlags, exc |-> None]
             /\ block = make(dtype, numChannels, SupportFlags, shouldPostBuffer).block
       \/ \E dtype \in WorkDTypes, nchans \in {1, 2, 3} :
             /\ factory = [op |-> "OneToOneBlock", dtype |-> dtype, outputDType |-> dtype,
                          numChannels |-> nchans,
                          supportedTypes |-> SupportFlags, exc |-> None]
             /\ block = OneToOneBlock(dtype, nchans).block
    /\ ports = [p \in PortIds |-> NoChunk]
    /\ consumed = [p \in PortIds |-> 0]
    /\ emitted = 0
    /\ topology = NoTopology
    /\ random = NoRandomBlock

NextWork ==
    \/ \E p \in PortIds, n \in 1..MaxElems, offset \in {0, 1} : FeedPort(p, n, offset)
    \/ \E room \in 1..MaxElems : Work(room)
    \/ \E room \in 1..MaxElems, garbage \in GarbageBytes :
           GetNumberedInputPortsAs2DAfArray(room, garbage)
    \/ \E rows \in 1..3 : Post2DAfArrayToNumberedOutputPorts(rows)

SpecWork == InitWork /\ [][NextWork]_vars

\* Work calls of blocks with numbered ports only, and gathers of a block that
\* has a named port as well.
NextGather ==
    \/ NextWork
    \/ \E room \in 1..MaxElems, named \in NamedPortArgs, garbage \in GarbageBytes,
           tiles \in BOOLEAN :
           GetNumberedInputPortsAs2DAfArrayWithNamedPort(room, named, garbage, tiles)

SpecGather == InitWork /\ [][NextGather]_vars

\* A committed chain of a combine block and a split block over T, the feeder
\* sources holding test inputs of `fed` elements each.
InitComplex ==
    /\ active = [b \in Blocks |-> FALSE]
    /\ _assumeArrayFireInputs = [b \in Blocks |-> FALSE]
    /\ activeBackend = [t \in Threads |-> DefaultBackend]
    /\ activeDevice = [t \in Threads |-> [k \in Backends |-> DefaultDevice(k)]]
    /\ _afBackend = [b \in Blocks |-> DefaultBackend]
    /\ _afDevice = [b \in Blocks |-> 0]
    /\ inputBuffer = [b \in Blocks |-> NoChunk]
    /\ call = Call("commit", "topology", "thr1", None)
    /\ factory = NoFactoryCall
    /\ block = NoBlock
    /\ ports = [p \in PortIds |-> NoChunk]
    /\ consumed = [p \in PortIds |-> 0]
    /\ emitted = 0
    /\ \E chain \in Chains, T \in ComplexDTypes, fed \in 1..MaxElems :
           topology = [NoTopology EXCEPT !.chain = chain, !.T = T, !.fed = fed]
    /\ random = NoRandomBlock

NextComplex ==
    \/ \E p \in ComplexPorts : FeedBuffer(p)
    \/ \E room \in 1..MaxElems : CombineWork(room)
    \/ \E room \in 1..MaxElems : SplitWork(room)

SpecComplex == InitComplex /\ [][NextComplex]_vars

\* A block one of the FFT factories constructed, its ports still empty.
InitFFT ==
    /\ active = [b \in Blocks |-> FALSE]
    /\ _assumeArrayFireInputs = [b \in Blocks |-> FALSE]
    /\ activeBackend = [t \in Threads |-> DefaultBackend]
    /\ activeDevice = [t \in Threads |-> [k \in Backends |-> DefaultDevice(k)]]
    /\ _afBackend = [b \in Blocks |-> DefaultBackend]
    /\ _afDevice = [b \in Blocks |-> 0]
    /\ inputBuffer = [b \in Blocks |-> NoChunk]
    /\ call = Call("construct", "worked", "thr1", None)
    /\ \E path \in {"/arrayfire/signal/fft", "/arrayfire/signal/rfft"},
          dtype \in FFTDTypeArgs, numBins \in NumBinsArgs, inverse \in BOOLEAN :
           LET r == IF path = "/arrayfire/signal/fft"
                    THEN makeFFT(dtype, numBins, inverse)
                    ELSE makeRFFT(dtype, numBins, inverse)
           IN  /\ r.exc = None
               /\ factory = [op |-> path, dtype |-> dtype,
                             outputDType |-> IF inverse THEN "inverse" ELSE "forward",
                             numChannels |-> numBins,
                             supportedTypes |-> {}, exc |-> None]
               /\ block = r.block
    /\ ports = [p \in PortIds |-> NoChunk]
    /\ consumed = [p \in PortIds |-> 0]
    /\ emitted = 0
    /\ topology = NoTopology
    /\ random = NoRandomBlock

NextFFT ==
    \/ \E n \in 1..MaxElems, offset \in {0, 1} : FeedPort(0, n, offset)
    \/ \E room \in 1..MaxElems, emptyFails \in BOOLEAN : FFTWork(room, emptyFails)

SpecFFT == InitFFT /\ [][NextFFT]_vars

NextRandom ==
    \/ \E distribution \in DistributionArgs : MakeRandom(distribution)
    \/ \E distribution \in DistributionArgs : SetDistribution(distribution)
    \/ GetDistribution

SpecRandom == Init /\ [][NextRandom]_vars

\* ------------------------------------------------- claims: backend / device

\* The registry lists `device` under `backend`.
Listed(backend, device) ==
    \E i \in 1..Len(getDeviceCache) :
        /\ getDeviceCache[i].afBackendEnum = backend
        /\ getDeviceCache[i].name = device

\* C1: setArrayFireBackend on an active block throws the state-conflict error
\* (RuntimeException) whatever the argument, and leaves every stored backend and
\* device index and every thread's ambient backend and device as they were.
C1_SetBackendWhileActive ==
    [][ (call'.op = "setArrayFireBackend" /\ active[call'.block])
        => /\ call'.exc = "RuntimeException"
           /\ UNCHANGED <<_afBackend, _afDevice, activeBackend, activeDevice>> ]_vars

\* C1 happens: an active block was handed an invalid backend and threw the
\* state-conflict error.
C1_Witness ==
    /\ call.op = "setArrayFireBackend"
    /\ active[call.block]
    /\ call.arg = "NotABackend"
    /\ call.exc = "RuntimeException"

\* C2: setArrayFireDevice on an active block throws the state-conflict error for
\* every device string, registered or not, and leaves the stored device index and
\* the ambient device unchanged.
C2_SetDeviceWhileActive ==
    [][ (call'.op = "setArrayFireDevice" /\ active[call'.block])
        => /\ call'.exc = "RuntimeException"
           /\ UNCHANGED <<_afBackend, _afDevice, activeBackend, activeDevice>> ]_vars

\* C2 happens: an active block was handed a name no backend lists and threw the
\* state-conflict error, not invalid-argument.
C2_Witness ==
    /\ call.op = "setArrayFireDevice"
    /\ active[call.block]
    /\ call.arg = "NoSuchDevice"
    /\ call.exc = "RuntimeException"

C4_SetDeviceWhileInactive ==
    [][ (/\ call'.op = "setArrayFireDevice"
         /\ ~active[call'.block]
         /\ Listed(_afBackend[call'.block], call'.arg))
        => /\ call'.exc = None
           /\ _afBackend' = _afBackend
           /\ \E i \in 1..Len(getDeviceCache) :
                 /\ getDeviceCache[i].afBackendEnum = _afBackend[call'.block]
                 /\ getDeviceCache[i].name = call'.arg
                 /\ getDeviceCache[i].afDeviceIndex = _afDevice'[call'.block]
           /\ activeBackend'[call'.thread] = _afBackend[call'.block]
           /\ afGetDevice(activeBackend', activeDevice', call'.thread)
                  = _afDevice'[call'.block]
           /\ getArrayFireDevice(_afBackend', _afDevice', call'.block) = call'.arg ]_vars

\* C4 happens: an inactive block selected the OpenCL backend's second device by
\* a name the CPU backend lists too.
C4_Witness ==
    /\ call.op = "setArrayFireDevice"
    /\ call.exc = None
    /\ call.arg = "Xeon"
    /\ _afBackend[call.block] = "AF_BACKEND_OPENCL"
    /\ _afDevice[call.block] = 1

\* C5: setArrayFireDevice on an inactive block with a name the registry does not
\* list under the block's backend throws InvalidArgumentException, whose message
\* is built from the backend's name and the requested string, and leaves every
\* stored and ambient backend and device unchanged.
C5_SetUnknownDevice ==
    [][ (/\ call'.op = "setArrayFireDevice"
         /\ ~active[call'.block]
         /\ ~Listed(_afBackend[call'.block], call'.arg))
        => /\ call'.exc = "InvalidArgumentException"
           /\ call'.msg = <<ConvertToString(_afBackend[call'.block]), call'.arg>>
           /\ UNCHANGED <<_afBackend, _afDevice, activeBackend, activeDevice>> ]_vars

\* C5 happens: a block on the CPU backend asked for a name only the OpenCL
\* backend lists, and the call threw.
C5_Witness ==
    /\ call.op = "setArrayFireDevice"
    /\ ~active[call.block]
    /\ call.arg = "Radeon"
    /\ _afBackend[call.block] = "AF_BACKEND_CPU"
    /\ call.exc = "InvalidArgumentException"

\* ---------------------------------------------------- claims: input bridge

\* The number of elements the bridge is to return for a source of n elements.
BridgedCount(n) ==
    IF call.truncate /\ call.minLength < n THEN call.minLength ELSE n

\* C6: every array the input bridge returns, on the plain path and on both
\* foreign-array paths, lives on the block's stored backend.
C6_BridgedArrayOnBlockBackend ==
    (call.op = "getInputPortAsAfArray" /\ call.exc = None)
        => call.ret.backend = _afBackend[call.block]

\* C7: a foreign array A of another backend is bridged to an array of A's type
\* and of A's element count (the minimum count when truncation is requested and
\* A is longer), whose elements are the leading elements of A.
C7_CrossBackendPreservesValues ==
    (call.op = "getInputPortAsAfArray" /\ call.path = "cross" /\ call.exc = None)
        => LET A == inputBuffer[call.block].container
               count == BridgedCount(afElements(A))
           IN  /\ call.ret.type = A.type
               /\ afElements(call.ret) = count
               /\ call.ret.data = SubSeq(A.data, 1, count * afGetSizeOf(A.type))

\* C8: a successful cross-backend bridge ends with the calling thread's ambient
\* backend equal to the block's stored backend, and changes neither the block's
\* stored backend and device nor the port's buffer and the foreign array in it.
C8_CrossBackendFrame ==
    [][ (/\ call'.op = "getInputPortAsAfArray"
         /\ call'.path = "cross"
         /\ call'.exc = None)
        => /\ activeBackend'[call'.thread] = _afBackend'[call'.block]
           /\ UNCHANGED <<_afBackend, _afDevice, inputBuffer>> ]_vars

\* C8 happens: a foreign array of another backend was bridged, and the thread
\* is on the block's backend.
C8_Witness ==
    /\ call.op = "getInputPortAsAfArray"
    /\ call.path = "cross"
    /\ call.exc = None
    /\ afElements(call.ret) > 0
    /\ inputBuffer[call.block].container.backend # _afBackend[call.block]
    /\ activeBackend[call.thread] = _afBackend[call.block]

\* C9: on the plain path the bridged array has the buffer's element type and
\* holds the buffer's first m elements when truncation is requested and m < n,
\* and all n elements of the buffer otherwise.
C9_PlainPathLeadingElements ==
    (call.op = "getInputPortAsAfArray" /\ call.path = "plain" /\ call.exc = None)
        => LET chunk == inputBuffer[call.block]
               count == BridgedCount(elements(chunk))
           IN  /\ call.ret.type = DTypeToAf(chunk.dtype)
               /\ afElements(call.ret) = count
               /\ call.ret.data =
                      SubSeq(chunk.mem, chunk.address + 1,
                             chunk.address + count * DTypeSize(chunk.dtype))

\* C10: in a work call that has elements on every port (m > 0), a foreign array
\* A of the block's own backend is bridged without error to the first m elements
\* of A when truncation is requested and A is longer than m, and to A itself
\* otherwise.
C10_SameBackendLeadingElements ==
    (call.op = "getInputPortAsAfArray" /\ call.path = "same" /\ call.minLength > 0)
        => LET A == inputBuffer[call.block].container
               count == BridgedCount(afElements(A))
           IN  /\ call.exc = None
               /\ call.ret.backend = A.backend
               /\ call.ret.type = A.type
               /\ afElements(call.ret) = count
               /\ call.ret.data = SubSeq(A.data, 1, count * afGetSizeOf(A.type))

\* The bytes a buffer chunk holds.
ChunkBytes(chunk) ==
    SubSeq(chunk.mem, chunk.address + 1, chunk.address + chunk.length)

C17_SetAssumeWhileActive ==
    [][ (call'.op = "setBlockAssumesArrayFireInputs" /\ active[call'.block])
        => /\ call'.exc # None
           /\ _assumeArrayFireInputs' = _assumeArrayFireInputs ]_vars


\* --------------------------------------------------- claims: construction

\* C15: a factory call for a complex-integer type fails with invalid-argument
\* whatever the operation's supported-type flags are, and constructs no block
\* instance: the type is validated before anything is constructed.
C15_ComplexIntRejected ==
    [][ (factory'.op = "make" /\ factory' # factory
         /\ factory'.dtype \in globalUnsupportedTypes)
        => /\ factory'.exc = "InvalidArgumentException"
           /\ block' = NoBlock ]_vars

\* C15 happens: a complex-integer type was requested with every flag set, the
\* call failed with invalid-argument and there is no block.
C15_Witness ==
    /\ factory.op = "make"
    /\ factory.dtype = "complex_uint32"
    /\ factory.supportedTypes = SupportFlags
    /\ factory.numChannels = 2
    /\ factory.exc = "InvalidArgumentException"
    /\ ~block.made

\* C16: the N-to-one constructor, reached directly or through the factory once
\* the type is validated, fails with invalid-argument and sets up no port when
\* numChannels < 2, and otherwise succeeds with exactly numChannels input ports
\* and one output port, all of the requested element type.
C16_ChannelCount ==
    [][ (/\ factory' # factory
         /\ factory'.op \in {"make", "NToOneBlock"}
         /\ validateDType(factory'.dtype, factory'.supportedTypes).exc = None)
        => IF factory'.numChannels < 2
           THEN /\ factory'.exc = "InvalidArgumentException"
                /\ ~block'.made
                /\ block'.inputs = <<>> /\ block'.outputs = <<>>
           ELSE /\ factory'.exc = None
                /\ block'.made
                /\ Len(block'.inputs) = factory'.numChannels
                /\ Len(block'.outputs) = 1
                /\ \A i \in 1..Len(block'.inputs) :
                       block'.inputs[i] = factory'.dtype
                /\ block'.outputs[1] = factory'.dtype ]_vars

\* C16 happens: the constructor was asked for one channel, threw
\* invalid-argument, and there is no block and no port.
C16_Witness ==
    /\ factory.op = "NToOneBlock"
    /\ factory.numChannels = 1
    /\ factory.exc = "InvalidArgumentException"
    /\ ~block.made
    /\ block.inputs = <<>>

\* ------------------------------------------------ claims: multi-port work

\* The input ports of the block that is worked.
InputPorts == 0..(Len(block.inputs) - 1)

\* Byte j of the buffer on input port p, counted from where the buffer starts.
PortByte(p, j) == ports[p].mem[ports[p].address + j]

EachPortHolds(M) == \A p \in InputPorts : portElements(ports[p]) = M

\* The gather's result for ports of M elements each: shape (N, M), row i the
\* M elements of port i, every port consumed by exactly M.
GatheredAll(M) ==
    LET N == Len(block.inputs)
        size == DTypeSize(block.inputs[1])
    IN  /\ call'.exc = None
        /\ call'.ret.dims = <<N, M, 1, 1>>
        /\ call'.ret.type = DTypeToAf(block.inputs[1])
        /\ \A i \in InputPorts : \A c \in 0..(M - 1) : \A k \in 1..size :
               call'.ret.data[(c * N + i) * size + k] = PortByte(i, c * size + k)
        /\ \A i \in InputPorts : consumed'[i] = consumed[i] + M
        /\ \A i \in InputPorts : ports'[i] = NoChunk

\* C12 as stated: with N >= 1 numbered input ports each holding exactly M >= 1
\* elements, the gather returns an array of shape (N, M) whose row i is port
\* i's M elements, and advances every port by exactly M.
C12_Original ==
    [][ \A M \in 1..MaxElems :
          (call'.op = "getNumberedInputPortsAs2DAfArray" /\ EachPortHolds(M))
              => GatheredAll(M) ]_vars

\* C12 amended: ... when, in addition, every output port has room for at least
\* M elements, so that the work call's minimum element count is M.
C12_GatherWholeBuffers ==
    [][ \A M \in 1..MaxElems :
          (/\ call'.op = "getNumberedInputPortsAs2DAfArray"
           /\ EachPortHolds(M)
           /\ call'.minLength = M)
              => GatheredAll(M) ]_vars

\* C12 happens: three ports of two elements each, one of them a buffer that
\* does not start at its shared buffer's address, were gathered whole.
C12_Witness ==
    /\ call.op = "getNumberedInputPortsAs2DAfArray"
    /\ call.exc = None
    /\ call.ret.dims = <<3, 2, 1, 1>>
    /\ call.ret.type = "s16"
    /\ call.ret.data[3] = PortBytes(1, 4)[3]
    /\ \A p \in InputPorts : consumed[p] = 2 /\ ports[p] = NoChunk

\* C13: post2DAfArrayToNumberedOutputPorts of an array of N rows on a block of
\* exactly N output ports posts one buffer on each port i in 0..N-1, holding
\* row i's elements in order; on a block with another number of output ports
\* the assertion fails and nothing is posted.
C13_ScatterRows ==
    call.op = "post2DAfArrayToNumberedOutputPorts"
        => LET N == call.ret.dims[1]
               M == call.ret.dims[2]
               size == afGetSizeOf(call.ret.type)
           IN  IF Len(block.outputs) = N
               THEN /\ call.exc = None
                    /\ Len(call.out) = N
                    /\ \A i \in 0..(N - 1) :
                          /\ call.out[i + 1].port = i
                          /\ call.out[i + 1].buffer.dtype = block.outputs[i + 1]
                          /\ elements(call.out[i + 1].buffer) = M
                          /\ \A c \in 0..(M - 1) : \A k \in 1..size :
                                 ChunkBytes(call.out[i + 1].buffer)[c * size + k]
                                     = call.ret.data[(c * N + i) * size + k]
               ELSE /\ call.exc = "AssertionFailure"
                    /\ call.out = <<>>

\* C13 happens: an array of three rows of two 2-byte elements was scattered
\* over three output ports.
C13_Witness ==
    /\ call.op = "post2DAfArrayToNumberedOutputPorts"
    /\ call.exc = None
    /\ call.ret.dims = <<3, 2, 1, 1>>
    /\ call.ret.type = "s16"
    /\ Len(call.out) = 3
    /\ emitted >= 6

\* Byte j of what the block's function folds out of channels 0 .. chan.
RECURSIVE ExpectedFold(_, _)
ExpectedFold(chan, j) ==
    IF chan = 0 THEN PortByte(0, j)
    ELSE (2 * ExpectedFold(chan - 1, j) + PortByte(chan, j)) % 256

\* C18: one work call of an N-to-one block with minimum element count m > 0
\* outputs m elements, element k being the left fold of the block's function
\* over element k of the buffers of channels 0 .. N-1.
C18_WorkFoldsChannels ==
    (call.op = "work" /\ call.minLength > 0)
        => LET m == call.minLength
               size == DTypeSize(block.inputs[1])
           IN  /\ call.exc = None
               /\ Len(call.out) = 1
               /\ call.out[1].port = 0
               /\ elements(call.out[1].buffer) = m
               /\ \A j \in 1..(m * size) :
                      ChunkBytes(call.out[1].buffer)[j]
                          = ExpectedFold(Len(block.inputs) - 1, j)

\* C19: once each input of an N-to-one block has been fed one buffer of M
\* elements, the block never emits more than M elements in total (no input
\* element is processed twice), and when no input is left it has consumed M
\* elements of every input and emitted exactly M.
C19_ConsumesWhatItEmits ==
    \A M \in 1..MaxElems :
        (/\ block.kind = "NToOneBlock"
         /\ \A p \in InputPorts : consumed[p] + portElements(ports[p]) = M)
            => /\ emitted <= M
               /\ (\A p \in InputPorts : ports[p] = NoChunk)
                      => /\ emitted = M
                         /\ \A p \in InputPorts : consumed[p] = M

\* ------------------------------------------------- claims: complex chains

\* The test inputs fed on port p of the chain.
FedStream(p) ==
    StreamBytes(p, topology.fed * DTypeSize(PortDType(p, topology.T)))

\* C20: combine-complex and split-complex are mutually inverse over float32
\* and float64: what a chain's collector sinks hold is never more than, and
\* never other than, the leading elements of the stream fed on the port of
\* that name (R on "re" and I on "im" of combine -> split, Z on port 0 of
\* split -> combine), so that the output has as many elements as the input.
C20_ChainsAreInverse ==
    topology.chain # None
        => \A p \in StreamPorts(topology.chain) :
               LET got == topology.collected[p]
               IN  /\ Len(got) <= Len(FedStream(p))
                   /\ got = SubSeq(FedStream(p), 1, Len(got))

\* ------------------------------------------------------ claims: factories

\* C21: the cast factory constructs a block of nchans input ports of the input
\* type and nchans output ports of the output type for every pair of types and
\* for 1 and 3 channels, except that it fails with invalid-argument, and
\* constructs nothing, exactly when the input type is complex float and the
\* output type is not complex.
C21_CastFactory ==
    [][ (factory'.op = "CastBlock::make" /\ factory' # factory)
        => IF /\ factory'.dtype \in {"complex_float32", "complex_float64"}
              /\ factory'.outputDType \notin {"complex_float32", "complex_float64"}
           THEN /\ factory'.exc = "InvalidArgumentException"
                /\ block' = NoBlock
           ELSE /\ factory'.exc = None
                /\ block'.made
                /\ block'.inputs = [chan \in 1..factory'.numChannels |-> factory'.dtype]
                /\ block'.outputs =
                       [chan \in 1..factory'.numChannels |-> factory'.outputDType] ]_vars

\* C21 happens: a cast of complex_float32 to float64 over 3 channels was asked
\* for, the factory failed with invalid-argument and there is no block.
C21_Witness ==
    /\ factory.op = "CastBlock::make"
    /\ factory.dtype = "complex_float32"
    /\ factory.outputDType = "float64"
    /\ factory.numChannels = 3
    /\ factory.exc = "InvalidArgumentException"
    /\ ~block.made

\* The complex-integer types, and the flag of an element type's class.
ComplexIntTypes ==
    {"complex_int8", "complex_int16", "complex_int32", "complex_int64",
     "complex_uint8", "complex_uint16", "complex_uint32", "complex_uint64"}

ClassFlag(dtype) ==
    IF dtype \in {"int8", "int16", "int32", "int64"} THEN "supportInt"
    ELSE IF dtype \in {"uint8", "uint16", "uint32", "uint64"} THEN "supportUInt"
    ELSE IF dtype \in {"float32", "float64"} THEN "supportFloat"
    ELSE IF dtype \in {"complex_float32", "complex_float64"} THEN "supportComplexFloat"
    ELSE "no class"

\* C24: validateDType(dtype, support) returns without error if and only if
\* dtype is not a complex-integer type and the flag of dtype's class is set;
\* otherwise it fails with invalid-argument, and for a complex-integer type
\* with the error of the types no block supports, whatever the flags are.
C24_ValidateDType ==
    factory.op = "make"
        => LET r == validateDType(factory.dtype, factory.supportedTypes)
           IN  /\ (r.exc = None)
                    <=> /\ factory.dtype \notin ComplexIntTypes
                        /\ ClassFlag(factory.dtype) \in factory.supportedTypes
               /\ r.exc \in {None, "InvalidArgumentException"}
               /\ factory.dtype \in ComplexIntTypes
                    => r.msg = <<"PothosGPU blocks do not support this type",
                                 factory.dtype>>
               /\ r.exc # None => factory.exc = r.exc

\* C24 happens: an unsigned type was validated against flags that support
\* signed integers and floats only, and the call failed with invalid-argument.
C24_Witness ==
    /\ factory.op = "make"
    /\ factory.dtype = "uint8"
    /\ factory.supportedTypes = {"supportInt", "supportFloat"}
    /\ factory.exc = "InvalidArgumentException"
    /\ ~block.made

\* ----------------------------------------------------- claims: FFT blocks

\* C22: the real-FFT block over T in {float32, float64} applies, forward, the
\* real-to-complex transform and has an input port of T and an output port of
\* complex T; inverse, it applies the complex-to-real transform (odd iff
\* numBins is odd) and has an input port of complex T and an output port of T;
\* any other dtype fails with invalid-argument.
C22_RealFFTPorts ==
    [][ (factory'.op = "/arrayfire/signal/rfft" /\ factory' # factory)
        => LET T == factory'.dtype
               numBins == factory'.numChannels
           IN  IF T \notin {"float32", "float64"}
               THEN /\ factory'.exc = "InvalidArgumentException"
                    /\ block' = NoBlock
               ELSE IF factory'.outputDType = "forward"
               THEN /\ block'._func = "fftR2C"
                    /\ block'.inputs = <<T>>
                    /\ block'.outputs = <<ComplexType(T)>>
               ELSE /\ block'._func = (IF numBins % 2 = 1 THEN "fftC2R odd"
                                       ELSE "fftC2R even")
                    /\ block'.inputs = <<ComplexType(T)>>
                    /\ block'.outputs = <<T>> ]_vars

\* C23: every transform performed by a work call of the FFT or real-FFT block
\* is computed over exactly numBins input elements, also when more than numBins
\* elements are available on the input port.
C23_TransformOverNumBins ==
    (/\ block.kind \in {"FFTBlock", "RFFTBlock"}
     /\ call.op = "work"
     /\ call.path = "plain")
        => afElements(call.ret) = block._numBins

\* C26: a work call of the FFT or real-FFT block made while fewer than numBins
\* elements are available on the input, or while none is available whatever
\* numBins is, returns without bridging the input, without consuming any input
\* element and without producing any output.
C26_TooFewElements ==
    [][ (/\ block.kind \in {"FFTBlock", "RFFTBlock"}
         /\ call'.op = "work"
         /\ call' # call
         /\ (portElements(ports[0]) < block._numBins \/ portElements(ports[0]) = 0))
        => /\ call'.path = None
           /\ call'.exc = None
           /\ call'.out = <<>>
           /\ consumed' = consumed
           /\ ports' = ports
           /\ emitted' = emitted ]_vars

\* --------------------------------------------------- claims: random source

\* C25: setDistribution accepts exactly "UNIFORM" and "NORMAL": on acceptance
\* the stored distribution is the new string, the generator function matches
\* it and one distributionChanged signal is emitted; for any other string it
\* fails with invalid-argument and leaves the stored distribution, the
\* generator function and the signals as they were.  Nothing else changes the
\* stored distribution of a block, and getDistribution returns it: the last
\* accepted value.
C25_SetDistribution ==
    [][ /\ (call'.op = "setDistribution" /\ random.made)
            => IF call'.arg \in {"UNIFORM", "NORMAL"}
               THEN /\ call'.exc = None
                    /\ random'._distribution = call'.arg
                    /\ random'._afRandomFunc =
                           (IF call'.arg = "UNIFORM" THEN "af::randu" ELSE "af::randn")
                    /\ random'.signals =
                           Append(random.signals, <<"distributionChanged", call'.arg>>)
               ELSE /\ call'.exc = "InvalidArgumentException"
                    /\ random' = random
        /\ (random.made /\ random'._distribution # random._distribution)
            => /\ call'.op = "setDistribution"
               /\ call'.exc = None
               /\ call'.arg = random'._distribution
        /\ call'.op = "getDistribution"
            => /\ call'.value = random._distribution
               /\ random' = random ]_vars

\* C25 happens: a block constructed and set twice was then handed "uniform";
\* the call failed with invalid-argument, and the block still holds "NORMAL",
\* af::randn and its three signals.
C25_Witness ==
    /\ call.op = "setDistribution"
    /\ call.arg = "uniform"
    /\ call.exc = "InvalidArgumentException"
    /\ random.made
    /\ random._distribution = "NORMAL"
    /\ random._afRandomFunc = "af::randn"
    /\ Len(random.signals) = 3

\* ------------------------------------------------------ claims: registry

C28_BridgeReadsOnly ==
    [][ call'.op = "getInputPortAsAfArray"
        => /\ inputBuffer' = inputBuffer
           /\ call'.out = <<>>
           /\ <<ports, consumed, emitted>>' = <<ports, consumed, emitted>>
           /\ _afBackend' = _afBackend
           /\ _afDevice' = _afDevice
           /\ _assumeArrayFireInputs' = _assumeArrayFireInputs ]_vars

\* C28 happens: a buffer of three elements that holds another backend's array
\* was bridged, truncated to one element, and is still on the port, whole.
C28_Witness ==
    /\ call.op = "getInputPortAsAfArray"
    /\ call.path = "cross"
    /\ call.exc = None
    /\ call.truncate
    /\ call.minLength = 1
    /\ afElements(call.ret) = 1
    /\ elements(inputBuffer[call.block]) = 3
    /\ afElements(inputBuffer[call.block].container) = 3

\* C29: when a library call of the transit across backends throws after the
\* bridge has switched the thread to the source array's backend, the error
\* reaches the caller and the thread's ambient backend is the block's stored
\* backend when it does.
C29_AmbientRestoredOnFailure ==
    [][ /\ call'.op = "getInputPortAsAfArray"
        /\ call'.path = "cross"
        /\ call'.exc # None
        /\ call'.msg # TransitCalls[1]
        => /\ call'.exc = "af::exception"
           /\ activeBackend'[call'.thread] = _afBackend'[call'.block] ]_vars

\* -------------------------------------------------- claims: gather counts

====
